---- MODULE Spec2Model ----
(***************************************************************************)
(* A model of the DreamMaker lexer (src/dreammaker/lexer.rs) and of the    *)
(* recursive-descent parser (src/dreammaker/parser.rs).                    *)
(*                                                                         *)
(* The methods of Lexer and Parser are operators in state-passing style:   *)
(* each takes the record of the object's fields and returns the updated    *)
(* record together with the method's result.  Loops are RECURSIVE          *)
(* operators.  An Option<T> is the empty sequence (None) or a one-element  *)
(* sequence (Some(x)).  Bytes are their Latin-1 codes.                     *)
(***************************************************************************)
EXTENDS Integers, Sequences, FiniteSets, Bags, TLC

VARIABLES lx, toks, ldone, px, ppc, pres

vars == <<lx, toks, ldone, px, ppc, pres>>

(***************************************************************************)
(* Bytes                                                                   *)
(***************************************************************************)
Chars ==
    <<"\t", "\n", "\r", " ", "!", "\"", "#", "$", "%", "&", "'", "(", ")",
      "*", "+", ",", "-", ".", "/", "0", "1", "2", "3", "4", "5", "6", "7",
      "8", "9", ":", ";", "<", "=", ">", "?", "@", "A", "B", "C", "D", "E",
      "F", "G", "H", "I", "J", "K", "L", "M", "N", "O", "P", "Q", "R", "S",
      "T", "U", "V", "W", "X", "Y", "Z", "[", "\\", "]", "^", "_", "a",
      "b", "c", "d", "e", "f", "g", "h", "i", "j", "k", "l", "m", "n", "o",
      "p", "q", "r", "s", "t", "u", "v", "w", "x", "y", "z", "{", "|", "}",
      "~">>

\* The code of a character: tab, line feed and carriage return, then the
\* printable characters from the space to the underscore and from a on.
CodeAt(i) ==
    IF i = 1 THEN 9 ELSE IF i = 2 THEN 10 ELSE IF i = 3 THEN 13
    ELSE IF i <= 67 THEN i + 28 ELSE i + 29

CodesOf(s) ==
    [c \in {s[i] : i \in DOMAIN s} |-> CodeAt(CHOOSE k \in DOMAIN s : s[k] = c)]

Ord == CodesOf(Chars)

\* The byte of a character, and the bytes of a sequence of characters.
B(c) == Ord[c]

Bytes(s) == [i \in 1..Len(s) |-> Ord[s[i]]]

\* An item of the byte iterator that is an io::Error instead of a byte.
IoErr == 256

IsIoErr(x) == x > 255

is_digit(ch) == ch >= B("0") /\ ch <= B("9")

is_ident(ch) ==
    \/ (ch >= B("a") /\ ch <= B("z"))
    \/ (ch >= B("A") /\ ch <= B("Z"))
    \/ ch = B("_")

\* tok.starts_with(needle) on byte slices.
starts_with(tok, needle) ==
    /\ Len(needle) <= Len(tok)
    /\ \A i \in 1..Len(needle) : tok[i] = needle[i]

(***************************************************************************)
(* PUNCT_TABLE, in the order of the source.                                *)
(***************************************************************************)
PT(chars, name) == [lit |-> Bytes(chars), p |-> name]

PUNCT_TABLE == <<
    PT(<<"\t">>, "Tab"), PT(<<"\n">>, "Newline"), PT(<<" ">>, "Space"),
    PT(<<"!">>, "Not"), PT(<<"!", "=">>, "NotEq"),
    PT(<<"\"">>, "DoubleQuote"),
    PT(<<"#">>, "Hash"), PT(<<"#", "#">>, "TokenPaste"),
    PT(<<"%">>, "Mod"), PT(<<"%", "=">>, "ModAssign"),
    PT(<<"&">>, "BitAnd"), PT(<<"&", "&">>, "And"), PT(<<"&", "=">>, "BitAndAssign"),
    PT(<<"'">>, "SingleQuote"),
    PT(<<"(">>, "LParen"), PT(<<")">>, "RParen"),
    PT(<<"*">>, "Mul"), PT(<<"*", "*">>, "Pow"), PT(<<"*", "=">>, "MulAssign"),
    PT(<<"+">>, "Add"), PT(<<"+", "+">>, "PlusPlus"), PT(<<"+", "=">>, "AddAssign"),
    PT(<<",">>, "Comma"),
    PT(<<"-">>, "Sub"), PT(<<"-", "-">>, "MinusMinus"), PT(<<"-", "=">>, "SubAssign"),
    PT(<<".">>, "Dot"), PT(<<".", ".">>, "Super"), PT(<<".", ".", ".">>, "Ellipsis"),
    PT(<<"/">>, "Slash"), PT(<<"/", "*">>, "BlockComment"), PT(<<"/", "/">>, "LineComment"),
    PT(<<"/", "=">>, "DivAssign"),
    PT(<<":">>, "Colon"), PT(<<";">>, "Semicolon"),
    PT(<<"<">>, "Less"), PT(<<"<", "<">>, "LShift"), PT(<<"<", "<", "=">>, "LShiftAssign"),
    PT(<<"<", "=">>, "LessEq"), PT(<<"<", ">">>, "LessGreater"),
    PT(<<"=">>, "Assign"), PT(<<"=", "=">>, "Eq"),
    PT(<<">">>, "Greater"), PT(<<">", "=">>, "GreaterEq"), PT(<<">", ">">>, "RShift"),
    PT(<<">", ">", "=">>, "RShiftAssign"),
    PT(<<"?">>, "QuestionMark"), PT(<<"?", ".">>, "SafeDot"), PT(<<"?", ":">>, "SafeColon"),
    PT(<<"[">>, "LBracket"), PT(<<"]">>, "RBracket"),
    PT(<<"^">>, "BitXor"), PT(<<"^", "=">>, "BitXorAssign"),
    PT(<<"{">>, "LBrace"), PT(<<"{", "\"">>, "BlockString"),
    PT(<<"|">>, "BitOr"), PT(<<"|", "=">>, "BitOrAssign"), PT(<<"|", "|">>, "Or"),
    PT(<<"}">>, "RBrace"),
    PT(<<"~">>, "BitNot"), PT(<<"~", "!">>, "NotEquiv"), PT(<<"~", "=">>, "Equiv"),
    PT(<<"i", "n">>, "In") >>

(***************************************************************************)
(* Tokens of the lexer.  text holds the bytes of an identifier, a string   *)
(* or a resource; num the value of an Int; a Float keeps the scanned       *)
(* digits in text.                                                         *)
(***************************************************************************)
Token(kind, p, text, ws, num) ==
    [kind |-> kind, p |-> p, text |-> text, ws |-> ws, num |-> num]

TokPunct(p) == Token("Punct", p, <<>>, FALSE, 0)

TokIdent(text, ws) == Token("Ident", "", text, ws, 0)

TokString(kind, text) == Token(kind, "", text, FALSE, 0)

TokInt(n) == Token("Int", "", <<>>, FALSE, n)

TokFloat(text, n) == Token("Float", "", text, FALSE, n)

\* Location { file, line, column }; one lexer reads one file, so file is fixed.
Location(line, column) == [line |-> line, column |-> column]

\* DMError::new(location, msg), severity Error unless set_severity is called.
DMError(loc, sev, msg) == [loc |-> loc, severity |-> sev, msg |-> msg]

(***************************************************************************)
(* The functions of lexer.rs call one another through Lexer(f, a): f names *)
(* the function and a is the tuple of its arguments.  Lexer is defined     *)
(* after the last of them.                                                 *)
(***************************************************************************)
RECURSIVE Lexer(_, _)

(***************************************************************************)
(* LocationTracker and the lexer's fields.                                 *)
(*   input, pos       the byte iterator: its items and how many were taken *)
(*   line, column, at_line_end                  LocationTracker            *)
(*   next, final_newline, at_line_head, directive, interp_stack   Lexer    *)
(*   errors           what was given to context.register_error             *)
(*   panicked         a panic!() was reached                               *)
(*   cur, nextIdx     history: the index in input of the byte last         *)
(*                    returned by Lexer::next, and of the byte in `next`   *)
(*   seen             history: the directive state that next() found when  *)
(*                    skip_ws last returned                                *)
(*   put_back_stale   history: put_back was given a byte that is not the   *)
(*                    byte last taken from the input                       *)
(*   put_back_after_newline   history: put_back was given a byte that only *)
(*                    blanks separate from the line feed before it         *)
(***************************************************************************)
Lexer_new(input) ==
    [input |-> input, pos |-> 0,
     line |-> 0, column |-> 0, at_line_end |-> TRUE,
     next |-> <<>>, final_newline |-> FALSE, at_line_head |-> TRUE,
     directive |-> "None", interp_stack |-> <<>>,
     errors |-> <<>>, panicked |-> FALSE, cur |-> 0, nextIdx |-> 0,
     seen |-> "None", put_back_stale |-> FALSE, put_back_after_newline |-> FALSE]

\* HasLocation for Lexer: self.input.location.
Lexer_location(l) == Location(l.line, l.column)

\* self.error(msg): an Error at the lexer's current location.
Lexer_error(l, msg) == DMError(Lexer_location(l), "Error", msg)

register_error(l, e) == [l EXCEPT !.errors = Append(@, e)]

\* As LocationTracker::next, but a tab moves the column to the next multiple
\* of four.
LocationTracker_next_tabs(l) ==
    LET l1 == IF l.at_line_end
              THEN [l EXCEPT !.at_line_end = FALSE, !.line = @ + 1, !.column = 0]
              ELSE l
    IN  IF l1.pos >= Len(l1.input)
        THEN [l |-> l1, item |-> <<>>]
        ELSE LET ch == l1.input[l1.pos + 1]
                 l2 == [l1 EXCEPT !.pos = @ + 1]
             IN  IF IsIoErr(ch)
                 THEN [l |-> l2, item |-> <<ch>>]
                 ELSE [l |-> [l2 EXCEPT !.at_line_end = (ch = B("\n")),
                                        !.column = IF ch = B("\t") THEN @ + 4 - (@ % 4)
                                                   ELSE @ + 1],
                       item |-> <<ch>>]

\* LocationTracker::next.  item is <<>> at the end of the iterator, else <<x>>
\* with x a byte or IoErr.
LocationTracker_next(l) ==
    LET l1 == IF l.at_line_end
              THEN [l EXCEPT !.at_line_end = FALSE, !.line = @ + 1, !.column = 0]
              ELSE l
    IN  IF l1.pos >= Len(l1.input)
        THEN [l |-> l1, item |-> <<>>]
        ELSE LET ch == l1.input[l1.pos + 1]
                 l2 == [l1 EXCEPT !.pos = @ + 1]
             IN  IF IsIoErr(ch)
                 THEN [l |-> l2, item |-> <<ch>>]
                 ELSE [l |-> [l2 EXCEPT !.at_line_end = (ch = B("\n")),
                                        !.column = @ + 1],
                       item |-> <<ch>>]

\* A wrong Lexer::next that leaves the directive state alone when the line
\* changes, to see the directive property fail.
Lexer_next_keeps(l) ==
    IF l.next # <<>>
    THEN [l |-> [l EXCEPT !.next = <<>>, !.cur = l.nextIdx], ch |-> l.next]
    ELSE LET r  == Lexer("LocationTracker_next", <<l>>)
             l1 == IF r.l.line > l.line
                   THEN [r.l EXCEPT !.at_line_head = TRUE]
                   ELSE r.l
         IN  IF r.item = <<>> \/ IsIoErr(r.item[1])
             THEN [l |-> [l1 EXCEPT !.cur = 0], ch |-> <<>>]
             ELSE [l |-> [l1 EXCEPT
                            !.at_line_head =
                                IF r.item[1] # B("\t") /\ r.item[1] # B(" ")
                                THEN FALSE ELSE @,
                            !.cur = l1.pos],
                   ch |-> r.item]

\* Lexer::next (the byte-level one).
Lexer_next(l) ==
    IF l.next # <<>>
    THEN [l |-> [l EXCEPT !.next = <<>>, !.cur = l.nextIdx], ch |-> l.next]
    ELSE LET r  == Lexer("LocationTracker_next", <<l>>)
             l1 == IF r.l.line > l.line
                   THEN [r.l EXCEPT !.at_line_head = TRUE, !.directive = "None"]
                   ELSE r.l
         IN  IF r.item = <<>>
             THEN [l |-> [l1 EXCEPT !.cur = 0], ch |-> <<>>]
             ELSE IF IsIoErr(r.item[1])
             THEN [l |-> [register_error(l1, Lexer_error(l1, "i/o error"))
                            EXCEPT !.cur = 0],
                   ch |-> <<>>]
             ELSE [l |-> [l1 EXCEPT
                            !.at_line_head =
                                IF r.item[1] # B("\t") /\ r.item[1] # B(" ")
                                THEN FALSE ELSE @,
                            !.cur = l1.pos],
                   ch |-> r.item]

\* A wrong Lexer::put_back that also makes the iterator give the byte again,
\* to see the progress property fail.
Lexer_put_back_rewinds(l, val) ==
    [l EXCEPT !.next = val, !.nextIdx = IF val = <<>> THEN 0 ELSE l.cur,
              !.pos = IF val # <<>> /\ l.pos > 0 THEN @ - 1 ELSE @]

\* The byte given to put_back is the byte last taken from the input.
LastRead(l, val) ==
    val = <<>> \/ (l.cur >= 1 /\ l.cur = l.pos /\ l.input[l.cur] = val[1])

\* Byte i of the input is the first byte of its line that is not a space, a
\* tab or a carriage return, and the line is not the first.
LineFeedBefore(input, i) ==
    \E j \in 1..(i - 1) :
        /\ input[j] = 10
        /\ \A k \in (j + 1)..(i - 1) : input[k] \in {32, 9, 13}

\* The byte given to put_back was read across a line feed.
AfterNewline(l, val) ==
    val # <<>> /\ l.cur >= 2 /\ LineFeedBefore(l.input, l.cur)

\* Lexer::put_back.
Lexer_put_back(l, val) ==
    IF l.next # <<>>
    THEN [l EXCEPT !.panicked = TRUE]
    ELSE [l EXCEPT !.next = val, !.nextIdx = IF val = <<>> THEN 0 ELSE l.cur,
                   !.put_back_stale = @ \/ ~LastRead(l, val),
                   !.put_back_after_newline = @ \/ AfterNewline(l, val)]

\* A wrong skip_ws that skips spaces and tabs at the head of a line too, to
\* see the whitespace properties fail.
skip_ws_loop_everywhere(l, sn) ==
    LET r == Lexer("Lexer_next", <<l>>)
    IN  IF r.ch = <<>> THEN r
        ELSE IF r.ch[1] \in {B("\r"), B(" "), B("\t")}
        THEN Lexer("skip_ws_loop", <<r.l, sn>>)
        ELSE IF r.ch[1] = B("\n") /\ sn = 2 THEN Lexer("skip_ws_loop", <<r.l, 1>>)
        ELSE r

\* Lexer::skip_ws; sn is the local skip_newlines (2, 1 or 0).
skip_ws_loop(l, sn) ==
    LET r == Lexer("Lexer_next", <<l>>)
    IN  IF r.ch = <<>> THEN r
        ELSE IF r.ch[1] = B("\r") THEN Lexer("skip_ws_loop", <<r.l, sn>>)
        ELSE IF r.ch[1] \in {B(" "), B("\t")} /\ (~r.l.at_line_head \/ sn > 0)
        THEN Lexer("skip_ws_loop", <<r.l, sn>>)
        ELSE IF r.ch[1] = B("\n") /\ sn = 2 THEN Lexer("skip_ws_loop", <<r.l, 1>>)
        ELSE r

skip_ws(l, skip_newlines) == Lexer("skip_ws_loop", <<l, IF skip_newlines THEN 2 ELSE 0>>)

\* from_latin1: each byte becomes the character of the same code point; a
\* String is modelled as the sequence of its code points.
from_latin1(bytes) == [i \in 1..Len(bytes) |-> bytes[i]]

\* The entries read_punct starts from: skip_while(tok[0] < first), then
\* take_while(tok[0] == first), over the table in its order.
skip_while_less(table, first) ==
    CHOOSE i \in 1..(Len(table) + 1) :
        /\ (i = Len(table) + 1 \/ ~(table[i].lit[1] < first))
        /\ \A j \in 1..(i - 1) : table[j].lit[1] < first

take_while_equal(table, first, start) ==
    CHOOSE i \in start..(Len(table) + 1) :
        /\ (i = Len(table) + 1 \/ table[i].lit[1] # first)
        /\ \A j \in start..(i - 1) : table[j].lit[1] = first

items_from(table, first, start) ==
    SubSeq(table, start, take_while_equal(table, first, start) - 1)

punct_items(table, first) ==
    items_from(table, first, skip_while_less(table, first))

\* A wrong read_punct that puts back the first byte of the needle, to see
\* the lookahead property fail.
read_punct_loop_first(l, items, needle) ==
    LET candidate == <<items[1].p>>
    IN  IF Len(items) = 1 THEN [l |-> l, v |-> candidate]
        ELSE LET r == Lexer("Lexer_next", <<l>>)
             IN  IF r.ch = <<>> THEN [l |-> r.l, v |-> candidate]
                 ELSE LET needle2 == Append(needle, r.ch[1])
                          items2  == SelectSeq(items,
                                         LAMBDA e : starts_with(e.lit, needle2))
                      IN  IF items2 = <<>>
                          THEN [l |-> Lexer_put_back(r.l, <<needle2[1]>>),
                                v |-> candidate]
                          ELSE Lexer("read_punct_loop", <<r.l, items2, needle2>>)

\* The loop of Lexer::read_punct.
read_punct_loop(l, items, needle) ==
    LET candidate == <<items[1].p>>
    IN  IF Len(items) = 1 THEN [l |-> l, v |-> candidate]
        ELSE LET r == Lexer("Lexer_next", <<l>>)
             IN  IF r.ch = <<>> THEN [l |-> r.l, v |-> candidate]
                 ELSE LET needle2 == Append(needle, r.ch[1])
                          items2  == SelectSeq(items,
                                         LAMBDA e : starts_with(e.lit, needle2))
                      IN  IF items2 = <<>>
                          THEN [l |-> Lexer_put_back(r.l, <<needle2[Len(needle2)]>>),
                                v |-> candidate]
                          ELSE Lexer("read_punct_loop", <<r.l, items2, needle2>>)

\* A wrong read_punct that answers with the first entry and never looks
\* ahead, to see the greedy property fail.
read_punct_first(l, first) ==
    LET items == Lexer("punct_items", <<PUNCT_TABLE, first>>)
    IN  IF items = <<>> THEN [l |-> l, v |-> <<>>]
        ELSE [l |-> l, v |-> <<items[1].p>>]

\* Lexer::read_punct: v is <<>> (None) or <<name of the Punctuation>>.
read_punct(l, first) ==
    LET items == Lexer("punct_items", <<PUNCT_TABLE, first>>)
    IN  IF items = <<>> THEN [l |-> l, v |-> <<>>]
        ELSE Lexer("read_punct_loop", <<l, items, <<first>>>>)

\* Lexer::skip_block_comments; b1 is buffer[1], the byte read before.
skip_block_comments_loop(l, depth, b1) ==
    IF depth <= 0 THEN l
    ELSE LET r == Lexer("Lexer_next", <<l>>)
         IN  IF r.ch = <<>>
             THEN register_error(r.l,
                      Lexer_error(r.l, "still skipping comments at end of file"))
             ELSE LET d2 == IF b1 = B("/") /\ r.ch[1] = B("*") THEN depth + 1
                            ELSE IF b1 = B("*") /\ r.ch[1] = B("/") THEN depth - 1
                            ELSE depth
                  IN  Lexer("skip_block_comments_loop", <<r.l, d2, r.ch[1]>>)

skip_block_comments(l) == Lexer("skip_block_comments_loop", <<l, 1, 0>>)

\* Lexer::skip_line_comment.
skip_line_comment_loop(l, backslash) ==
    LET r == Lexer("Lexer_next", <<l>>)
    IN  IF r.ch = <<>> THEN r.l
        ELSE IF r.ch[1] = B("\r") THEN Lexer("skip_line_comment_loop", <<r.l, backslash>>)
        ELSE IF backslash THEN Lexer("skip_line_comment_loop", <<r.l, FALSE>>)
        ELSE IF r.ch[1] = B("\n") THEN r.l
        ELSE IF r.ch[1] = B("\\") THEN Lexer("skip_line_comment_loop", <<r.l, TRUE>>)
        ELSE Lexer("skip_line_comment_loop", <<r.l, backslash>>)

skip_line_comment(l) == Lexer("skip_line_comment_loop", <<l, FALSE>>)

\* Lexer::read_ident.
read_ident_loop(l, ident) ==
    LET r == Lexer("Lexer_next", <<l>>)
    IN  IF r.ch # <<>> /\ (is_ident(r.ch[1]) \/ is_digit(r.ch[1]))
        THEN Lexer("read_ident_loop", <<r.l, Append(ident, r.ch[1])>>)
        ELSE [l |-> Lexer_put_back(r.l, r.ch), v |-> from_latin1(ident)]

read_ident(l, first) == Lexer("read_ident_loop", <<l, <<first>>>>)

\* Lexer::read_resource.
read_resource_loop(l, start_loc, buf) ==
    LET r == Lexer("Lexer_next", <<l>>)
    IN  IF r.ch = <<>>
        THEN [l |-> register_error(r.l,
                        DMError(start_loc, "Error", "unterminated resource literal")),
              v |-> from_latin1(buf)]
        ELSE IF r.ch[1] = B("'") THEN [l |-> r.l, v |-> from_latin1(buf)]
        ELSE Lexer("read_resource_loop", <<r.l, start_loc, Append(buf, r.ch[1])>>)

read_resource(l) == Lexer("read_resource_loop", <<l, Lexer_location(l), <<>>>>)

\* A wrong push that opens the frame at depth 0, to see the interpolation
\* properties fail.
push_interp_shallow(l, end) ==
    [l EXCEPT !.interp_stack = Append(@, [end |-> end, bracket_depth |-> 0])]

\* interp_stack.push(Interpolation { end, bracket_depth: 1 }).
push_interp(l, end) ==
    [l EXCEPT !.interp_stack = Append(@, [end |-> end, bracket_depth |-> 1])]

\* The loop of Lexer::read_string; idx counts the bytes of `end` matched.
read_string_loop(l, end, start_loc, buf, backslash, idx) ==
    LET r == Lexer("Lexer_next", <<l>>)
    IN  IF r.ch = <<>>
        THEN [l |-> register_error(r.l,
                        DMError(start_loc, "Error", "unterminated string literal")),
              buf |-> buf, interp_opened |-> FALSE]
        ELSE
        LET ch == r.ch[1]
        IN  IF ch = end[idx + 1] /\ ~backslash
            THEN IF idx + 1 = Len(end)
                 THEN [l |-> r.l, buf |-> buf, interp_opened |-> FALSE]
                 ELSE Lexer("read_string_loop", <<r.l, end, start_loc, buf, backslash, idx + 1>>)
            ELSE
            LET flushed == buf \o SubSeq(end, 1, idx)
                idx2    == IF ch = end[1] /\ ~backslash THEN 1 ELSE 0
            IN  IF backslash /\ ch \in {B("\r"), B("\n")}
                THEN LET s == skip_ws(r.l, TRUE)
                     IN  Lexer("read_string_loop", <<Lexer_put_back(s.l, s.ch), end, start_loc,
                                          flushed, FALSE, idx2>>)
                ELSE IF backslash
                THEN Lexer("read_string_loop", <<r.l, end, start_loc,
                                      flushed \o <<B("\\"), ch>>, FALSE, idx2>>)
                ELSE IF ch = B("[")
                THEN [l |-> push_interp(r.l, end), buf |-> flushed,
                      interp_opened |-> TRUE]
                ELSE IF ch = B("\\")
                THEN Lexer("read_string_loop", <<r.l, end, start_loc, flushed, TRUE, idx2>>)
                ELSE Lexer("read_string_loop", <<r.l, end, start_loc, Append(flushed, ch),
                                      FALSE, idx2>>)

\* A wrong final match (Begin and Part exchanged), to see the string
\* properties fail.
string_variant_swapped(interp_opened, interp_closed) ==
    IF interp_opened
    THEN (IF interp_closed THEN "InterpStringBegin" ELSE "InterpStringPart")
    ELSE (IF interp_closed THEN "InterpStringEnd" ELSE "String")

\* The final match of read_string on (interp_opened, interp_closed).
string_variant(interp_opened, interp_closed) ==
    IF interp_opened
    THEN (IF interp_closed THEN "InterpStringPart" ELSE "InterpStringBegin")
    ELSE (IF interp_closed THEN "InterpStringEnd" ELSE "String")

\* A wrong read_string that drops the backslashes from the text, to see the
\* string properties fail.
read_string_unescaped(l, end, interp_closed) ==
    LET r == Lexer("read_string_loop", <<l, end, Lexer_location(l), <<>>, FALSE, 0>>)
    IN  [l |-> r.l,
         v |-> TokString(string_variant(r.interp_opened, interp_closed),
                         SelectSeq(r.buf, LAMBDA b : b # B("\\"))),
         interp_opened |-> r.interp_opened]

\* Lexer::read_string.
read_string(l, end, interp_closed) ==
    LET r == Lexer("read_string_loop", <<l, end, Lexer_location(l), <<>>, FALSE, 0>>)
    IN  [l |-> r.l,
         v |-> TokString(string_variant(r.interp_opened, interp_closed),
                         from_latin1(r.buf)),
         interp_opened |-> r.interp_opened]

(***************************************************************************)
(* Numbers.  A scanned literal is kept as its bytes (buf).                 *)
(***************************************************************************)
\* (ch as char).to_digit(36): the value of a digit or letter.
digit_value(ch) ==
    IF is_digit(ch) THEN ch - B("0")
    ELSE IF ch >= B("a") /\ ch <= B("z") THEN ch - B("a") + 10
    ELSE IF ch >= B("A") /\ ch <= B("Z") THEN ch - B("A") + 10
    ELSE 99

\* (ch as char).is_digit(radix).
is_digit_radix(ch, radix) == Lexer("digit_value", <<ch>>) < radix

I32_MAX == 2147483647

\* The value of the digits of buf in the radix, most significant first, as
\* checked_mul and checked_add accumulate it: -1 once it exceeds i32::MAX.
radix_value(buf, radix, acc) ==
    IF buf = <<>> THEN acc
    ELSE LET d == Lexer("digit_value", <<buf[1]>>)
         IN  IF acc > (I32_MAX - d) \div radix THEN 0 - 1
             ELSE Lexer("radix_value", <<Tail(buf), radix, acc * radix + d>>)

\* i32::from_str_radix on a buffer of digits: Err on an empty buffer, on a digit
\* that is not of the radix, and on overflow.
i32_from_str_radix(buf, radix) ==
    IF buf # <<>>
       /\ (\A i \in 1..Len(buf) : is_digit_radix(buf[i], radix))
       /\ Lexer("radix_value", <<buf, radix, 0>>) >= 0
    THEN [ok |-> TRUE, val |-> Lexer("radix_value", <<buf, radix, 0>>)]
    ELSE [ok |-> FALSE, val |-> 0]

all_digits(s) == \A i \in 1..Len(s) : is_digit(s[i])

\* The mantissa and the exponent of the grammar f32::from_str accepts.
f32_mantissa_ok(m) ==
    \E d \in 0..Len(m) :
        /\ Lexer("all_digits", <<SubSeq(m, 1, d)>>)
        /\ \/ d = Len(m)
           \/ (m[d + 1] = B(".") /\ Lexer("all_digits", <<SubSeq(m, d + 2, Len(m))>>))
        /\ \E i \in 1..Len(m) : is_digit(m[i])

f32_exponent_ok(x) ==
    \/ x = <<>>
    \/ /\ x[1] \in {B("e"), B("E")}
       /\ LET t  == Tail(x)
              t2 == IF t # <<>> /\ t[1] \in {B("+"), B("-")} THEN Tail(t) ELSE t
          IN  t2 # <<>> /\ Lexer("all_digits", <<t2>>)

\* Whether f32::from_str(buf) is Ok.
f32_from_str_ok(buf) ==
    \/ buf = Bytes(<<"i", "n", "f">>)
    \/ \E k \in 1..Len(buf) :
          /\ Lexer("f32_mantissa_ok", <<SubSeq(buf, 1, k)>>)
          /\ Lexer("f32_exponent_ok", <<SubSeq(buf, k + 1, Len(buf))>>)

\* The "#INF" part of read_number_inner: the bytes of b"INF" still expected.
read_inf(l, buf, expect) ==
    IF expect = <<>>
    THEN [l |-> l, integer |-> FALSE, radix |-> 10, buf |-> Bytes(<<"i", "n", "f">>)]
    ELSE LET r == Lexer("Lexer_next", <<l>>)
         IN  IF r.ch # <<>> /\ r.ch[1] = expect[1]
             THEN Lexer("read_inf", <<r.l, buf, Tail(expect)>>)
             ELSE [l |-> r.l, integer |-> FALSE, radix |-> 10,
                   buf |-> IF r.ch = <<>> THEN buf ELSE Append(buf, r.ch[1])]

\* The scan loop of Lexer::read_number_inner.
read_number_loop(l, integer, exponent, radix, buf) ==
    LET r  == Lexer("Lexer_next", <<l>>)
        ch == r.ch[1]
        mx == IF radix > 10 THEN radix ELSE 10
    IN  IF r.ch = <<>>
        THEN [l |-> Lexer_put_back(r.l, r.ch), integer |-> integer,
              radix |-> radix, buf |-> buf]
        ELSE IF ch = B("_")
        THEN Lexer("read_number_loop", <<r.l, integer, exponent, radix, buf>>)
        ELSE IF ch = B(".") \/ ch = B("e")
        THEN Lexer("read_number_loop", <<r.l, FALSE, exponent \/ ch = B("e"), radix,
                              Append(buf, ch)>>)
        ELSE IF (ch = B("+") \/ ch = B("-")) /\ exponent
        THEN Lexer("read_number_loop", <<r.l, integer, exponent, radix, Append(buf, ch)>>)
        ELSE IF ch = B("#") /\ ~integer
        THEN Lexer("read_inf", <<r.l, Append(buf, ch), Bytes(<<"I", "N", "F">>)>>)
        ELSE IF is_digit_radix(ch, mx)
        THEN Lexer("read_number_loop", <<r.l, integer, FALSE, radix, Append(buf, ch)>>)
        ELSE [l |-> Lexer_put_back(r.l, r.ch), integer |-> integer,
              radix |-> radix, buf |-> buf]

\* As read_number_inner, but a leading `0` that is not `0x` leaves the radix
\* at 10.
read_number_inner_decimal(l, first) ==
    IF first = B(".")
    THEN Lexer("read_number_loop", <<l, FALSE, FALSE, 10, <<first>>>>)
    ELSE IF first = B("0")
    THEN LET r == Lexer("Lexer_next", <<l>>)
         IN  IF r.ch = <<B("x")>>
             THEN Lexer("read_number_loop", <<r.l, TRUE, FALSE, 16, <<first>>>>)
             ELSE Lexer("read_number_loop", <<Lexer_put_back(r.l, r.ch), TRUE, FALSE, 10,
                                   <<first>>>>)
    ELSE Lexer("read_number_loop", <<l, TRUE, FALSE, 10, <<first>>>>)

\* Lexer::read_number_inner.
read_number_inner(l, first) ==
    IF first = B(".")
    THEN Lexer("read_number_loop", <<l, FALSE, FALSE, 10, <<first>>>>)
    ELSE IF first = B("0")
    THEN LET r == Lexer("Lexer_next", <<l>>)
         IN  IF r.ch = <<B("x")>>
             THEN Lexer("read_number_loop", <<r.l, TRUE, FALSE, 16, <<first>>>>)
             ELSE Lexer("read_number_loop", <<Lexer_put_back(r.l, r.ch), TRUE, FALSE, 8,
                                   <<first>>>>)
    ELSE Lexer("read_number_loop", <<l, TRUE, FALSE, 10, <<first>>>>)

(***************************************************************************)
(* f32::from_str followed by to_string, on a buffer of decimal digits that *)
(* i32 could not hold.  The naturals are sequences of decimal digits, most *)
(* significant first.  to_string gives the shortest digits that parse back *)
(* to the same f32, the closest to it among those, then zeros.             *)
(***************************************************************************)
\* a without the zeros it starts with.
DStrip(a) ==
    LET z == CHOOSE n \in 0..Len(a) :
                 /\ \A i \in 1..n : a[i] = 0
                 /\ n = Len(a) \/ a[n + 1] # 0
    IN  SubSeq(a, z + 1, Len(a))

\* The i-th digit from the right, 0 beyond the left end.
DDigit(a, i) == IF i <= Len(a) THEN a[Len(a) + 1 - i] ELSE 0

DCmp(a, b) ==
    IF Len(a) # Len(b) THEN (IF Len(a) < Len(b) THEN "Less" ELSE "Greater")
    ELSE IF a = b THEN "Equal"
    ELSE LET i == CHOOSE j \in 1..Len(a) :
                      a[j] # b[j] /\ \A k \in 1..(j - 1) : a[k] = b[k]
         IN  IF a[i] < b[i] THEN "Less" ELSE "Greater"

DMax(m, n) == IF m >= n THEN m ELSE n

\* a + b: the carry into the i-th digit from the right comes from the
\* nearest lower position that makes one, through positions that pass it on.
DAdd(a, b) ==
    LET n == DMax(Len(a), Len(b)) + 1
        carry(i) == \E j \in 1..(i - 1) :
                        /\ DDigit(a, j) + DDigit(b, j) >= 10
                        /\ \A k \in (j + 1)..(i - 1) : DDigit(a, k) + DDigit(b, k) = 9
    IN  DStrip([p \in 1..n |->
                   LET i == n + 1 - p
                   IN  (DDigit(a, i) + DDigit(b, i) + IF carry(i) THEN 1 ELSE 0) % 10])

\* a - b for a >= b, with the borrow found as the carry is.
DSub(a, b) ==
    LET n == Len(a)
        borrow(i) == \E j \in 1..(i - 1) :
                         /\ DDigit(a, j) < DDigit(b, j)
                         /\ \A k \in (j + 1)..(i - 1) : DDigit(a, k) = DDigit(b, k)
    IN  DStrip([p \in 1..n |->
                   LET i == n + 1 - p
                   IN  (10 + DDigit(a, i) - DDigit(b, i) - IF borrow(i) THEN 1 ELSE 0) % 10])

\* |a - b|.
DDist(a, b) == IF DCmp(a, b) = "Less" THEN Lexer("DSub", <<b, a>>) ELSE Lexer("DSub", <<a, b>>)

\* a / d and a % d for a small d.
DDivFrom(a, d, i, rem, acc) ==
    IF i > Len(a) THEN [q |-> DStrip(acc), r |-> rem]
    ELSE LET cur == rem * 10 + a[i]
         IN  Lexer("DDivFrom", <<a, d, i + 1, cur % d, Append(acc, cur \div d)>>)

DDiv(a, d) == Lexer("DDivFrom", <<a, d, 1, 0, <<>>>>)

DToInt(a, acc) == IF a = <<>> THEN acc ELSE Lexer("DToInt", <<Tail(a), acc * 10 + a[1]>>)

DFromInt(n) == IF n = 0 THEN <<>> ELSE Append(Lexer("DFromInt", <<n \div 10>>), n % 10)

\* a * k for a small k.
DMulFrom(a, k, i, carry) ==
    IF i > Len(a) THEN Lexer("DFromInt", <<carry>>)
    ELSE LET s == DDigit(a, i) * k + carry
         IN  Append(Lexer("DMulFrom", <<a, k, i + 1, s \div 10>>), s % 10)

DMul(a, k) == DStrip(Lexer("DMulFrom", <<a, k, 1, 0>>))

Pow2(n) == 2 ^ n

F32_MANTISSA_BITS == 24

F32_MAX_EXP == 104

\* The bits a small factor or divisor takes at a time.
DChunk == F32_MANTISSA_BITS

\* a * 2^e.
DShl(a, e) ==
    IF e = 0 THEN a
    ELSE IF e >= DChunk THEN Lexer("DShl", <<DMul(a, Pow2(DChunk)), e - DChunk>>)
    ELSE DMul(a, Pow2(e))

\* The 25 leading bits of a (the mantissa and the bit after it), the exponent
\* of the last of them, and whether a bit after them is set.
f32_shift(a, e, sticky) ==
    LET top == Lexer("DFromInt", <<Pow2(F32_MANTISSA_BITS + 1)>>)
        by  == IF DCmp(a, DMul(top, Pow2(DChunk - 1))) # "Less" THEN DChunk
               ELSE IF DCmp(a, DMul(top, Pow2(5))) # "Less" THEN 6
               ELSE IF DCmp(a, top) # "Less" THEN 1
               ELSE 0
        h   == DDiv(a, Pow2(by))
    IN  IF by = 0 THEN [n |-> Lexer("DToInt", <<a, 0>>), e |-> e, sticky |-> sticky]
        ELSE Lexer("f32_shift", <<h.q, e + by, sticky \/ h.r # 0>>)

\* f32::from_str on the digits a >= 2^25, to nearest and to even on a tie:
\* the value is m * 2^e, or infinite.
f32_from_digits(a) ==
    LET s  == Lexer("f32_shift", <<a, 0, FALSE>>)
        m0 == s.n \div 2
        up == s.n % 2 = 1 /\ (s.sticky \/ m0 % 2 = 1)
        m1 == IF up THEN m0 + 1 ELSE m0
        m  == IF m1 = Pow2(F32_MANTISSA_BITS) THEN Pow2(F32_MANTISSA_BITS - 1) ELSE m1
        e  == IF m1 = Pow2(F32_MANTISSA_BITS) THEN s.e + 2 ELSE s.e + 1
    IN  [m |-> m, e |-> e, inf |-> e > F32_MAX_EXP]

\* Whether the digits c parse back to the float f: c is between the midpoints
\* to the neighbours of f, which count when the mantissa is even.
f32_parses_to(c, f) ==
    LET v    == Lexer("DShl", <<Lexer("DFromInt", <<f.m>>), f.e>>)
        up   == Lexer("DShl", <<<<1>>, f.e - 1>>)
        down == IF f.m = Pow2(F32_MANTISSA_BITS - 1) THEN Lexer("DShl", <<<<1>>, f.e - 2>>) ELSE up
        lo   == DCmp(c, Lexer("DSub", <<v, down>>))
        hi   == DCmp(c, Lexer("DAdd", <<v, up>>))
        even == f.m % 2 = 0
    IN  /\ lo = "Greater" \/ (even /\ lo = "Equal")
        /\ hi = "Less" \/ (even /\ hi = "Equal")

\* The number of zeros a ends with.
trailing_zeros(a) ==
    CHOOSE n \in 0..Len(a) :
        /\ \A i \in 1..n : DDigit(a, i) = 0
        /\ n = Len(a) \/ DDigit(a, n + 1) # 0

\* As precision_loss, but every float is taken to have lost precision.
precision_loss_always(buf) == TRUE

\* val.to_string() != buf, for buf the decimal digits of an integer above
\* i32::MAX: val is infinite, or digits with more zeros at the end parse to
\* val, or digits with as many zeros are closer to val.
precision_loss(buf) ==
    LET a    == DStrip([i \in 1..Len(buf) |-> Lexer("digit_value", <<buf[i]>>)])
        f    == Lexer("f32_from_digits", <<a>>)
        v    == Lexer("DShl", <<Lexer("DFromInt", <<f.m>>), f.e>>)
        z    == trailing_zeros(a)
        head == SubSeq(a, 1, Len(a) - z - 1)
        unit == <<1>> \o [i \in 1..z |-> 0]
        \* the multiples of 10^(z+1) around a
        below == DStrip(head \o [i \in 1..(z + 1) |-> 0])
        above == Lexer("DAdd", <<head, <<1>>>>) \o [i \in 1..(z + 1) |-> 0]
        prev == Lexer("DSub", <<a, unit>>)
        next == Lexer("DAdd", <<a, unit>>)
        Closer(c) == Lexer("f32_parses_to", <<c, f>>) /\ DCmp(Lexer("DDist", <<c, v>>), Lexer("DDist", <<a, v>>)) = "Less"
    IN  \/ f.inf
        \/ (below # <<>> /\ Lexer("f32_parses_to", <<below, f>>))
        \/ Lexer("f32_parses_to", <<above, f>>)
        \/ Closer(prev)
        \/ Closer(next)

\* Lexer::read_number.
read_number(l, first) ==
    LET r == Lexer("read_number_inner", <<l, first>>)
        i == i32_from_str_radix(r.buf, r.radix)
    IN  IF r.integer
        THEN IF i.ok THEN [l |-> r.l, v |-> TokInt(i.val)]
             ELSE IF r.radix = 10 /\ Lexer("f32_from_str_ok", <<r.buf>>)
             THEN [l |-> IF Lexer("precision_loss", <<r.buf>>)
                         THEN register_error(r.l,
                                  DMError(Lexer_location(r.l), "Warning",
                                          "precision loss of integer constant"))
                         ELSE r.l,
                   v |-> TokFloat(r.buf, 0)]
             ELSE [l |-> register_error(r.l,
                             Lexer_error(r.l, IF r.radix = 8 THEN "bad base-8 integer"
                                              ELSE IF r.radix = 16 THEN "bad base-16 integer"
                                              ELSE "bad base-10 integer")),
                   v |-> TokInt(0)]
        ELSE IF Lexer("f32_from_str_ok", <<r.buf>>)
             THEN [l |-> r.l, v |-> TokFloat(r.buf, 0)]
             ELSE [l |-> register_error(r.l, Lexer_error(r.l, "bad float")),
                   v |-> TokFloat(Bytes(<<"0">>), 0)]

(***************************************************************************)
(* impl Iterator for Lexer.  What next() returns is <<>> (None) or <<e>>,  *)
(* e the LocatedToken with the history of the call beside it:              *)
(*   start      the index in input of `first`, 0 for the final Newline     *)
(*   punct      what read_punct returned for `first` ("" when not called   *)
(*              or None)                                                   *)
(*   end        the delimiter given to read_string (<<>> when not called)  *)
(*   opened     read_string pushed an interpolation frame                  *)
(*   closed     the call is a continuation (interp_closed)                 *)
(***************************************************************************)
LocatedToken(loc, token, start, punct, end, opened, closed) ==
    [location |-> loc, token |-> token, start |-> start, punct |-> punct,
     end |-> end, opened |-> opened, closed |-> closed]

Plain(loc, token, start, punct) ==
    LocatedToken(loc, token, start, punct, <<>>, FALSE, FALSE)

\* The keyword check after an identifier: the first table entry whose literal
\* is the identifier.
keyword_of(ident) ==
    LET hits == SelectSeq(PUNCT_TABLE, LAMBDA e : e.lit = ident)
    IN  IF hits = <<>> THEN <<>> ELSE <<hits[1].p>>

\* read_string called from next(), and the token located.
located_string(l, loc, start, punct, end, interp_closed) ==
    LET r == Lexer("read_string", <<l, end, interp_closed>>)
    IN  [l |-> r.l,
         out |-> <<LocatedToken(loc, r.v, start, punct, end, r.interp_opened,
                                interp_closed)>>]

\* The identifier branch of next().
ident_branch(l, loc, start, first) ==
    LET ri  == read_ident(l, first)
        rn  == Lexer("Lexer_next", <<ri.l>>)
        l1  == Lexer_put_back(rn.l, rn.ch)
        ws  == rn.ch = <<B(" ")>> \/ rn.ch = <<B("\t")>>
        l2  == IF l1.directive = "Hash"
               THEN [l1 EXCEPT !.directive =
                        IF ri.v = Bytes(<<"w", "a", "r", "n">>)
                           \/ ri.v = Bytes(<<"e", "r", "r", "o", "r">>)
                        THEN "Stringy" ELSE "Ordinary"]
               ELSE l1
        kw  == Lexer("keyword_of", <<ri.v>>)
    IN  [l |-> l2,
         out |-> <<Plain(loc, IF kw # <<>> THEN TokPunct(kw[1]) ELSE TokIdent(ri.v, ws),
                         start, "")>>]

\* A wrong LBracket arm that leaves the frame alone, to see the bracket
\* property fail.
lbracket_forgets(l) == l

\* The LBracket arm: interp_stack.last_mut() has its bracket_depth increased.
lbracket(l) ==
    IF l.interp_stack # <<>>
    THEN [l EXCEPT !.interp_stack[Len(l.interp_stack)].bracket_depth = @ + 1]
    ELSE l

\* What next() does with `first` once read_punct has answered.
after_punct(l, loc, start, first, punct, found_illegal) ==
    LET p == IF punct = <<>> THEN "" ELSE punct[1]
    IN  IF p = "Hash" /\ l.directive = "None"
        THEN [l |-> [l EXCEPT !.directive = "Hash"],
              out |-> <<Plain(loc, TokPunct("Hash"), start, p)>>]
        ELSE IF p = "BlockComment"
        THEN Lexer("Lexer_iter_loop", <<skip_block_comments(l), FALSE, found_illegal>>)
        ELSE IF p = "LineComment"
        THEN [l |-> skip_line_comment(l),
              out |-> <<Plain(loc, TokPunct("Newline"), start, p)>>]
        ELSE IF p = "SingleQuote"
        THEN LET r == read_resource(l)
             IN  [l |-> r.l,
                  out |-> <<Plain(loc, TokString("Resource", r.v), start, p)>>]
        ELSE IF p = "DoubleQuote"
        THEN located_string(l, loc, start, p, Bytes(<<"\"">>), FALSE)
        ELSE IF p = "BlockString"
        THEN located_string(l, loc, start, p, Bytes(<<"\"", "}">>), FALSE)
        ELSE IF p = "LBracket"
        THEN [l |-> lbracket(l),
              out |-> <<Plain(loc, TokPunct("LBracket"), start, p)>>]
        ELSE IF p = "RBracket"
        THEN IF l.interp_stack # <<>>
             THEN LET n      == Len(l.interp_stack)
                      interp == [l.interp_stack[n] EXCEPT !.bracket_depth = @ - 1]
                      popped == [l EXCEPT !.interp_stack = SubSeq(@, 1, n - 1)]
                  IN  IF interp.bracket_depth = 0
                      THEN located_string(popped, loc, start, p, interp.end, TRUE)
                      ELSE [l |-> [popped EXCEPT !.interp_stack = Append(@, interp)],
                            out |-> <<Plain(loc, TokPunct("RBracket"), start, p)>>]
             ELSE [l |-> l, out |-> <<Plain(loc, TokPunct("RBracket"), start, p)>>]
        ELSE IF p # ""
        THEN [l |-> l, out |-> <<Plain(loc, TokPunct(p), start, p)>>]
        ELSE IF is_digit(first)
        THEN LET r == Lexer("read_number", <<l, first>>)
             IN  [l |-> r.l, out |-> <<Plain(loc, r.v, start, p)>>]
        ELSE IF is_ident(first)
        THEN Lexer("ident_branch", <<l, loc, start, first>>)
        ELSE IF first = B("\\")
        THEN Lexer("Lexer_iter_loop", <<[l EXCEPT !.at_line_head = FALSE], TRUE, found_illegal>>)
        ELSE IF first = B("@")
        THEN Lexer("Lexer_iter_loop", <<l, FALSE, found_illegal>>)
        ELSE Lexer("Lexer_iter_loop", <<
                 IF found_illegal THEN l
                 ELSE register_error(l, Lexer_error(l, "illegal byte")),
                 FALSE, TRUE>>)

\* A wrong location, taken after read_punct has looked ahead, to see the
\* location property fail.
lookahead_location(l, after) == Lexer_location(after)

\* `let loc = self.location()`: taken when skip_ws has returned `first`
\* (lexer state l), before read_punct looks ahead (lexer state after).
token_location(l, after) == Lexer_location(l)

\* The loop of Iterator::next for Lexer.
Lexer_iter_loop(l, skip_newlines, found_illegal) ==
    LET r == skip_ws(l, skip_newlines)
        s == [r EXCEPT !.l.seen = r.l.directive]
    IN  IF s.ch = <<>>
        THEN IF ~s.l.final_newline
             THEN [l |-> [s.l EXCEPT !.final_newline = TRUE],
                   out |-> <<Plain(Location(s.l.line, s.l.column + 1),
                                   TokPunct("Newline"), 0, "")>>]
             ELSE [l |-> s.l, out |-> <<>>]
        ELSE
        LET first == s.ch[1]
            start == s.l.cur
        IN  IF s.l.directive = "Stringy"
            THEN located_string(
                     Lexer_put_back([s.l EXCEPT !.directive = "None"], <<first>>),
                     token_location(s.l, s.l), start, "", Bytes(<<"\n">>), FALSE)
            ELSE LET pr == Lexer("read_punct", <<s.l, first>>)
                 IN  Lexer("after_punct", <<pr.l, token_location(s.l, pr.l), start, first,
                                 pr.v, found_illegal>>)

\* Iterator::next for Lexer.
Lexer_iter_next(l) == Lexer("Lexer_iter_loop", <<l, FALSE, FALSE>>)

(***************************************************************************)
(* Lexer(f, a): the function f of lexer.rs applied to the arguments a.     *)
(***************************************************************************)
Lexer(f, a) ==
    CASE f = "Lexer_next" -> Lexer_next(a[1])
      [] f = "LocationTracker_next" -> LocationTracker_next(a[1])
      [] f = "skip_ws_loop" -> skip_ws_loop(a[1], a[2])
      [] f = "punct_items" -> punct_items(a[1], a[2])
      [] f = "read_punct_loop" -> read_punct_loop(a[1], a[2], a[3])
      [] f = "read_punct_first" -> read_punct_first(a[1], a[2])
      [] f = "read_punct" -> read_punct(a[1], a[2])
      [] f = "skip_block_comments_loop" -> skip_block_comments_loop(a[1], a[2], a[3])
      [] f = "skip_line_comment_loop" -> skip_line_comment_loop(a[1], a[2])
      [] f = "read_ident_loop" -> read_ident_loop(a[1], a[2])
      [] f = "read_resource_loop" -> read_resource_loop(a[1], a[2], a[3])
      [] f = "read_string_loop" -> read_string_loop(a[1], a[2], a[3], a[4], a[5], a[6])
      [] f = "read_string" -> read_string(a[1], a[2], a[3])
      [] f = "digit_value" -> digit_value(a[1])
      [] f = "radix_value" -> radix_value(a[1], a[2], a[3])
      [] f = "all_digits" -> all_digits(a[1])
      [] f = "f32_mantissa_ok" -> f32_mantissa_ok(a[1])
      [] f = "f32_exponent_ok" -> f32_exponent_ok(a[1])
      [] f = "f32_from_str_ok" -> f32_from_str_ok(a[1])
      [] f = "read_inf" -> read_inf(a[1], a[2], a[3])
      [] f = "read_number_loop" -> read_number_loop(a[1], a[2], a[3], a[4], a[5])
      [] f = "read_number_inner" -> read_number_inner(a[1], a[2])
      [] f = "DAdd" -> DAdd(a[1], a[2])
      [] f = "DSub" -> DSub(a[1], a[2])
      [] f = "DDist" -> DDist(a[1], a[2])
      [] f = "DDivFrom" -> DDivFrom(a[1], a[2], a[3], a[4], a[5])
      [] f = "DToInt" -> DToInt(a[1], a[2])
      [] f = "DFromInt" -> DFromInt(a[1])
      [] f = "DMulFrom" -> DMulFrom(a[1], a[2], a[3], a[4])
      [] f = "DShl" -> DShl(a[1], a[2])
      [] f = "f32_shift" -> f32_shift(a[1], a[2], a[3])
      [] f = "f32_from_digits" -> f32_from_digits(a[1])
      [] f = "f32_parses_to" -> f32_parses_to(a[1], a[2])
      [] f = "precision_loss" -> precision_loss(a[1])
      [] f = "read_number" -> read_number(a[1], a[2])
      [] f = "keyword_of" -> keyword_of(a[1])
      [] f = "ident_branch" -> ident_branch(a[1], a[2], a[3], a[4])
      [] f = "after_punct" -> after_punct(a[1], a[2], a[3], a[4], a[5], a[6])
      [] f = "Lexer_iter_loop" -> Lexer_iter_loop(a[1], a[2], a[3])

(***************************************************************************)
(* The lexer as a state machine: lx is the Lexer, toks what next() has     *)
(* returned so far, ldone whether next() has returned None.                *)
(***************************************************************************)
\* All concatenations of at most n chunks.
RECURSIVE Words(_, _)
Words(chunks, n) ==
    IF n = 0 THEN {<<>>}
    ELSE LET W == Words(chunks, n - 1)
         IN  W \cup {w \o c : w \in W, c \in chunks}

ParserIdle == px = <<>> /\ ppc = "idle" /\ pres = <<>>

InitLexer(inputs) ==
    /\ lx \in {Lexer_new(i) : i \in inputs}
    /\ toks = <<>>
    /\ ldone = FALSE
    /\ ParserIdle

\* A call of next() that returns a token.
LexToken ==
    /\ ~lx.panicked
    /\ \E r \in {Lexer_iter_next(lx)} :
           /\ r.out # <<>>
           /\ lx' = r.l
           /\ toks' = Append(toks, r.out[1])
           /\ ldone' = ldone
    /\ UNCHANGED <<px, ppc, pres>>

\* A call of next() that returns None.
LexNone ==
    /\ ~lx.panicked
    /\ \E r \in {Lexer_iter_next(lx)} :
           /\ r.out = <<>>
           /\ lx' = r.l
           /\ toks' = toks
           /\ ldone' = TRUE
    /\ UNCHANGED <<px, ppc, pres>>

NextLex == LexToken \/ LexNone

\* The token appended by the step, when the step is a LexToken.
Emitted == Len(toks') = Len(toks) + 1

Last == toks'[Len(toks')]

\* The tokens of toks without the history beside them.
TokensOf(ts) == [i \in 1..Len(ts) |-> ts[i].token]

(***************************************************************************)
(* SpecLex: the lexer over short inputs of ordinary source text.           *)
(***************************************************************************)
MaxLexLen == 3

LexAlphabet ==
    {Bytes(<<"a">>), Bytes(<<" ">>), Bytes(<<"\n">>), Bytes(<<"<">>),
     Bytes(<<"=">>), Bytes(<<"\"">>), Bytes(<<"\\">>), Bytes(<<"/", "*">>),
     Bytes(<<"*", "/">>), Bytes(<<"0">>), Bytes(<<"[">>), Bytes(<<"]">>)}

LexInputs == Words(LexAlphabet, MaxLexLen)

SpecLex == InitLexer(LexInputs) /\ [][NextLex]_vars

\* The line and the column of the i-th byte of an input: lines end at "\n",
\* both count from 1, every byte is one column.
LineOf(input, i) == 1 + Cardinality({j \in 1..(i - 1) : input[j] = B("\n")})

ColumnOf(input, i) ==
    LET nl == {j \in 1..(i - 1) : input[j] = B("\n")}
    IN  i - (IF nl = {} THEN 0 ELSE CHOOSE j \in nl : \A k \in nl : k <= j)

\* C4: every token read from the source carries the line and the column of
\* the first byte of its source text (one lexer reads one file, so the file
\* is the lexer's).  The Newline the lexer adds at the end of the input has
\* no source text.
C4_TokenLocation ==
    \A i \in 1..Len(toks) :
        toks[i].start > 0 =>
            toks[i].location = Location(LineOf(lx.input, toks[i].start),
                                        ColumnOf(lx.input, toks[i].start))

\* C4 happens: on the second line, an identifier whose first byte was read as
\* the lookahead of the `<` before it and put back.
C4_Witness ==
    \E i \in 2..Len(toks) :
        /\ toks[i - 1].punct = "Less"
        /\ toks[i].token.kind = "Ident"
        /\ toks[i].start = toks[i - 1].start + 1
        /\ toks[i].location.line = 2

(***************************************************************************)
(* SpecInterp: the lexer over strings and brackets.                        *)
(***************************************************************************)
MaxInterpLen == 5

InterpAlphabet ==
    {Bytes(<<"\"">>), Bytes(<<"[">>), Bytes(<<"]">>), Bytes(<<"a">>), Bytes(<<" ">>)}

\* "a[b]c"
ExampleBegin == Bytes(<<"\"", "a", "[", "b", "]", "c", "\"">>)

\* "x[ "y" ]z"
ExampleInner == Bytes(<<"\"", "x", "[", " ", "\"", "y", "\"", " ", "]", "z", "\"">>)

\* "a[ "b[ x ]c" ]d"
ExampleNested ==
    Bytes(<<"\"", "a", "[", " ", "\"", "b", "[", " ", "x", " ", "]", "c", "\"",
            " ", "]", "d", "\"">>)

\* "a[b]c[ "d" ]e"
ExampleParts ==
    Bytes(<<"\"", "a", "[", "b", "]", "c", "[", " ", "\"", "d", "\"", " ", "]", "e",
            "\"">>)

InterpInputs ==
    Words(InterpAlphabet, MaxInterpLen)
        \cup {ExampleBegin, ExampleInner, ExampleNested, ExampleParts}

SpecInterp == InitLexer(InterpInputs) /\ [][NextLex]_vars

Unterminated(l) ==
    {i \in 1..Len(l.errors) : l.errors[i].msg = "unterminated string literal"}

\* C6: once the lexer has reached the end of the input, the interpolation
\* stack is empty or an `unterminated string literal` diagnostic has been
\* recorded for each string still open, a frame left on the stack being a
\* string whose `[` was never closed.
C6_EofStackOrDiagnostic ==
    ldone => \/ lx.interp_stack = <<>>
             \/ Cardinality(Unterminated(lx)) >= Len(lx.interp_stack)

\* C7, the steps: with a frame on top of the stack, a `[` read as punctuation
\* increases and a `]` decreases its bracket_depth; the frame is popped exactly
\* when a `]` finds the depth at 1, and then no RBracket is emitted but a
\* string continuation scanned with the frame's end; the frames below stay.
C7_Step ==
    (Emitted /\ lx.interp_stack # <<>>) =>
        LET t     == Last
            st    == lx.interp_stack
            st2   == lx'.interp_stack
            n     == Len(st)
            lower == SubSeq(st, 1, n - 1)
            pops  == t.punct = "RBracket" /\ st[n].bracket_depth = 1
        IN  /\ Len(st2) >= n - 1
            /\ SubSeq(st2, 1, n - 1) = lower
            /\ t.punct = "LBracket" =>
                   /\ t.token = TokPunct("LBracket")
                   /\ st2 = Append(lower, [st[n] EXCEPT !.bracket_depth = @ + 1])
            /\ (t.punct = "RBracket" /\ ~pops) =>
                   /\ t.token = TokPunct("RBracket")
                   /\ st2 = Append(lower, [st[n] EXCEPT !.bracket_depth = @ - 1])
            /\ pops =>
                   /\ t.token.kind \in {"InterpStringEnd", "InterpStringPart"}
                   /\ t.closed
                   /\ t.end = st[n].end
                   /\ st2 = IF t.opened
                            THEN Append(lower, [end |-> st[n].end, bracket_depth |-> 1])
                            ELSE lower
            /\ ~pops => (Len(st2) >= n /\ st2[n].end = st[n].end)
            /\ t.punct \notin {"LBracket", "RBracket"} => st2[n] = st[n]

\* C7, the example: in "a[ "b[ x ]c" ]d" the inner string is closed before
\* the outer one.
C7_Example ==
    (ldone /\ lx.input = ExampleNested) =>
        TokensOf(toks) =
            << TokString("InterpStringBegin", Bytes(<<"a">>)),
               TokString("InterpStringBegin", Bytes(<<"b">>)),
               TokIdent(Bytes(<<"x">>), TRUE),
               TokString("InterpStringEnd", Bytes(<<"c">>)),
               TokString("InterpStringEnd", Bytes(<<"d">>)),
               TokPunct("Newline") >>

\* C7: the bracket depth of the top frame follows the `[` and `]` read as
\* punctuation, the frame is popped exactly at depth 0 into a string
\* continuation, and frames below the top are not touched.
C7_Brackets == [][C7_Step]_vars /\ []C7_Example

\* C7 happens: "[[]] has been lexed, the `[` and the `]` inside the
\* interpolation were counted and the last `]` closed the string.
C7_Witness ==
    /\ lx.input = Bytes(<<"\"", "[", "[", "]", "]">>)
    /\ Len(toks) >= 4
    /\ toks[2].token = TokPunct("LBracket")
    /\ toks[3].token = TokPunct("RBracket")
    /\ toks[4].token.kind = "InterpStringEnd"
    /\ lx.interp_stack = <<>>

\* C8, the steps: a token scanned by read_string is a String when the scan
\* pushed no frame and did not continue after a `]`, an InterpStringBegin when
\* it pushed one and did not continue, an InterpStringEnd when it continued
\* and pushed none, an InterpStringPart when both.
C8_Step ==
    (Emitted /\ Last.end # <<>>) =>
        LET t         == Last
            continued == t.punct = "RBracket"
            before    == Len(lx.interp_stack) - (IF continued THEN 1 ELSE 0)
            pushed    == Len(lx'.interp_stack) > before
        IN  t.token.kind =
                IF pushed
                THEN (IF continued THEN "InterpStringPart" ELSE "InterpStringBegin")
                ELSE (IF continued THEN "InterpStringEnd" ELSE "String")

\* C8, the examples "a[b]c" and "x[ "y" ]z".
C8_Examples ==
    /\ (ldone /\ lx.input = ExampleBegin) =>
           TokensOf(toks) =
               << TokString("InterpStringBegin", Bytes(<<"a">>)),
                  TokIdent(Bytes(<<"b">>), FALSE),
                  TokString("InterpStringEnd", Bytes(<<"c">>)),
                  TokPunct("Newline") >>
    /\ (ldone /\ lx.input = ExampleInner) =>
           TokensOf(toks) =
               << TokString("InterpStringBegin", Bytes(<<"x">>)),
                  TokString("String", Bytes(<<"y">>)),
                  TokString("InterpStringEnd", Bytes(<<"z">>)),
                  TokPunct("Newline") >>

\* C8: the variant read_string returns is decided by whether it opened an
\* interpolation and whether it is a continuation, as in the two examples.
C8_StringVariants == [][C8_Step]_vars /\ []C8_Examples

\* C8 happens: all four variants have been returned for one input.
C8_Witness ==
    /\ ldone
    /\ \E i \in 1..Len(toks) : toks[i].token.kind = "String"
    /\ \E i \in 1..Len(toks) : toks[i].token.kind = "InterpStringBegin"
    /\ \E i \in 1..Len(toks) : toks[i].token.kind = "InterpStringPart"
    /\ \E i \in 1..Len(toks) : toks[i].token.kind = "InterpStringEnd"

(***************************************************************************)
(* SpecDirective: the lexer over preprocessor lines.                       *)
(***************************************************************************)
MaxDirLen == 4

DirAlphabet ==
    {Bytes(<<"#">>), Bytes(<<"w", "a", "r", "n">>), Bytes(<<"e", "r", "r", "o", "r">>),
     Bytes(<<"a">>), Bytes(<<" ">>), Bytes(<<"\n">>), Bytes(<<"[">>), Bytes(<<"]">>)}

DirInputs == Words(DirAlphabet, MaxDirLen)

SpecDirective == InitLexer(DirInputs) /\ [][NextLex]_vars

\* The i-th byte of the input is at the head of its line: only spaces and tabs
\* are before it on the line.
AtLineHead(input, i) ==
    \A j \in (i - ColumnOf(input, i) + 1)..(i - 1) : input[j] \in {B(" "), B("\t")}

IsWarnOrError(t) ==
    /\ t.token.kind = "Ident"
    /\ t.token.text \in {Bytes(<<"w", "a", "r", "n">>), Bytes(<<"e", "r", "r", "o", "r">>)}

\* C9: after a `#` at the head of a line and the identifier `warn` or `error`,
\* the next token read from the source is a String, and its scan opened no
\* interpolation: a `[` in the text neither ends the token nor pushes a frame.
C9_WarnString ==
    \A i \in 1..(Len(toks) - 2) :
        ( /\ toks[i].token = TokPunct("Hash")
          /\ AtLineHead(lx.input, toks[i].start)
          /\ IsWarnOrError(toks[i + 1])
          /\ toks[i + 2].start > 0 )
        => /\ toks[i + 2].token.kind = "String"
           /\ ~toks[i + 2].opened

\* C10, the steps: a call of next() that takes the directive state from None
\* to Hash has read a `#` at the head of a line.
C10_Step ==
    (Emitted /\ lx.directive = "None" /\ lx'.directive = "Hash") =>
        /\ Last.punct = "Hash"
        /\ AtLineHead(lx.input, Last.start)

\* C10, the rest of the line: after a `#` that is not at the head of its line
\* and a `warn` or `error`, the next token is not the rest of the line scanned
\* as a string.
C10_Rest ==
    \A i \in 1..(Len(toks) - 2) :
        ( /\ toks[i].token = TokPunct("Hash")
          /\ ~AtLineHead(lx.input, toks[i].start)
          /\ IsWarnOrError(toks[i + 1])
          /\ toks[i + 2].start > 0 )
        => toks[i + 2].end = <<>>

\* C10: the directive state goes from None to Hash only for a `#` at the head
\* of a line; after any other `#`, `warn` and `error` are ordinary identifiers
\* and the rest of the line is tokenized normally.
C10_HashAtLineHead == [][C10_Step]_vars /\ []C10_Rest

(***************************************************************************)
(* SpecPunct: read_punct called as next() calls it, on the first byte of   *)
(* an input.  toks records the call: the first byte, what read_punct       *)
(* returned, and the byte the lexer reads after it.                        *)
(***************************************************************************)
MaxCont == 2

\* The bytes table entries start with, and the bytes they go on with; `a`
\* stands for the bytes of no entry.
FirstBytes(table) == {table[k].lit[1] : k \in 1..Len(table)}

LaterBytes(table) ==
    UNION {{table[k].lit[j] : j \in 2..Len(table[k].lit)} : k \in 1..Len(table)}

PunctFirsts == FirstBytes(PUNCT_TABLE) \cup {B("a")}

PunctConts == LaterBytes(PUNCT_TABLE) \cup {B("a")}

PunctInputs ==
    {<<f>> \o w : f \in PunctFirsts, w \in Words({<<c>> : c \in PunctConts}, MaxCont)}

\* skip_ws returns the first byte.
PunctFirst ==
    /\ toks = <<>>
    /\ \E r \in {Lexer("Lexer_next", <<lx>>)} :
           /\ r.ch # <<>>
           /\ lx' = r.l
           /\ toks' = <<[first |-> r.ch[1]]>>
    /\ UNCHANGED <<ldone, px, ppc, pres>>

\* read_punct(first).
PunctRead ==
    /\ Len(toks) = 1
    /\ \E r \in {Lexer("read_punct", <<lx, toks[1].first>>)} :
           /\ lx' = r.l
           /\ toks' = Append(toks, [v |-> r.v])
    /\ UNCHANGED <<ldone, px, ppc, pres>>

\* The byte the lexer reads next.
PunctAfter ==
    /\ Len(toks) = 2
    /\ \E r \in {Lexer("Lexer_next", <<lx>>)} :
           /\ lx' = r.l
           /\ toks' = Append(toks, [ch |-> r.ch, idx |-> r.l.cur])
    /\ ldone' = TRUE
    /\ UNCHANGED <<px, ppc, pres>>

NextPunct == PunctFirst \/ PunctRead \/ PunctAfter

SpecPunct == InitLexer(PunctInputs) /\ [][NextPunct]_vars

\* The longest entry of a table that is a prefix of the input: its name in v
\* (<<>> when no entry is a prefix) and its length in len (1, the first byte,
\* when no entry is).
LongestEntry(table, input) ==
    LET hits == {k \in 1..Len(table) : starts_with(input, table[k].lit)}
        best == CHOOSE k \in hits :
                    \A j \in hits : Len(table[j].lit) <= Len(table[k].lit)
    IN  IF hits = {} THEN [v |-> <<>>, len |-> 1]
        ELSE [v |-> <<table[best].p>>, len |-> Len(table[best].lit)]

\* read_punct has answered with the longest entry of the table and the lexer
\* then reads the byte after that entry.
GreedyOver(table) ==
    Len(toks) = 3 =>
        LET best == LongestEntry(table, lx.input)
        IN  /\ toks[2].v = best.v
            /\ IF best.len < Len(lx.input)
               THEN /\ toks[3].ch = <<lx.input[best.len + 1]>>
                    /\ toks[3].idx = best.len + 1
               ELSE toks[3].ch = <<>>

\* The entries that are punctuation; the others are keywords (`in`).
PunctEntries == SelectSeq(PUNCT_TABLE, LAMBDA e : ~is_ident(e.lit[1]))

\* C5 as stated: read_punct returns the longest entry of PUNCT_TABLE that is
\* a prefix of the input (None when there is none), consumes exactly its
\* bytes and leaves the byte after it to be read next.
C5_GreedyOverTable == GreedyOver(PUNCT_TABLE)

\* C5 amended: read_punct returns the longest punctuation entry of PUNCT_TABLE
\* that is a prefix of the input (None when there is none; the keyword
\* entries are not looked at), consumes exactly its bytes and leaves the byte
\* after it to be read next.
C5_GreedyOverPunctuation == GreedyOver(PunctEntries)

\* C5 happens: on `<<=a` read_punct has gone past a one-byte and a two-byte
\* entry to the three-byte one, and on `<a` it has put the lookahead back.
C5_Witness ==
    /\ Len(toks) = 3
    /\ \/ (toks[2].v = <<"LShiftAssign">> /\ toks[3].ch = <<B("a")>>)
       \/ (toks[2].v = <<"Less">> /\ toks[3].ch = <<B("a")>> /\ toks[3].idx = 2)

(***************************************************************************)
(* The parser.  Its fields:                                                *)
(*   input, ipos      the token iterator: its items and how many were     *)
(*                    taken                                                *)
(*   eof, next, location, expected, procs_bad, procs_good       Parser     *)
(*   tree             the calls made to the object tree, in order          *)
(*   errors           what was given to context.register_error             *)
(*   debug_assertions whether the build has cfg(debug_assertions)          *)
(*   panicked         a panic!() was reached                               *)
(*   bodies           history: the token buffer of every procedure body    *)
(*                    given to a sub-parser, whether it parsed, and the    *)
(*                    outer parser before and after (tree, unread tokens,  *)
(*                    counters)                                            *)
(*   pulled           history: the item last pulled from the input, with   *)
(*                    its location (Eof at the end of the input)           *)
(*   put_back_twice   history: put_back was called on a full slot, here or *)
(*                    in a sub-parser                                      *)
(*   slot_stale       history: put_back stored a token other than the one  *)
(*                    last pulled, or away from its location               *)
(*   expected_at      history: for each label of expected, the number of   *)
(*                    the token next() returned when it recorded the label *)
(*                    (the tokens of the input are numbered from 1, Eof    *)
(*                    comes after the last)                                *)
(*   messages         history: for every `got 'X', expected one of`        *)
(*                    message built, here or in a sub-parser: X, its       *)
(*                    number, the labels and their numbers                 *)
(* A Status<T> is a record [p, st, v]: p the parser after the call, st     *)
(* "Some" (Ok(Some(v))), "None" (Ok(None)) or "Err" (Err(v)).  A           *)
(* Result<T, DMError> uses "Some" and "Err".                               *)
(***************************************************************************)
EofToken == Token("Eof", "", <<>>, FALSE, 0)

\* The labels given to next(): a text, or the identifier exact_ident expects.
Lbl(s) == [label |-> s, ident |-> <<>>]

LblIdent(i) == [label |-> "ident", ident |-> i]

\* The label exact() makes of a token: "EOF" or the token displayed.
token_label(tok) ==
    IF tok.kind = "Eof" THEN Lbl("EOF")
    ELSE IF tok.kind = "Punct" THEN Lbl(tok.p)
    ELSE [label |-> tok.kind, ident |-> tok.text]

Status(p, st, v) == [p |-> p, st |-> st, v |-> v]

success(p, v) == Status(p, "Some", v)

SUCCESS(p) == Status(p, "Some", <<>>)

(***************************************************************************)
(* The functions of parser.rs call one another through Parser(f, a), as    *)
(* those of lexer.rs do through Lexer(f, a).                               *)
(***************************************************************************)
RECURSIVE Parser(_, _)

\* Parser::new.  The context is shared: errors is what it already holds.
Parser_new(input, debug_assertions, errors) ==
    [input |-> input, ipos |-> 0, eof |-> FALSE, next |-> <<>>,
     location |-> Location(0, 0), expected |-> <<>>,
     procs_bad |-> 0, procs_good |-> 0, tree |-> <<>>, errors |-> errors,
     debug_assertions |-> debug_assertions, panicked |-> FALSE, bodies |-> <<>>,
     pulled |-> <<>>, put_back_twice |-> FALSE, slot_stale |-> FALSE,
     expected_at |-> <<>>, messages |-> <<>>]

\* The number of the token last pulled from the input.
Serial(p) == p.ipos + (IF p.eof THEN 1 ELSE 0)

\* self.error(msg): an Error at the parser's location.
Parser_error(p, msg) == DMError(p.location, "Error", msg)

Parser_warning(p, msg) == DMError(p.location, "Warning", msg)

\* Parser::next.
Parser_next(p, what) ==
    LET r == IF p.next # <<>>
             THEN Status([p EXCEPT !.next = <<>>], "Some", p.next[1])
             ELSE IF p.ipos < Len(p.input)
             THEN LET t == p.input[p.ipos + 1]
                  IN  Status([p EXCEPT !.ipos = @ + 1, !.expected = <<>>,
                                       !.expected_at = <<>>,
                                       !.location = t.location, !.pulled = <<t>>],
                             "Some", t.token)
             ELSE IF ~p.eof
             THEN Status([p EXCEPT !.eof = TRUE,
                                   !.pulled = <<[location |-> p.location,
                                                 token |-> EofToken]>>],
                         "Some", EofToken)
             ELSE Status(p, "Err", DMError(p.location, "Error", "read-after-EOF"))
    IN  Status(IF what.label # ""
               THEN [r.p EXCEPT !.expected = Append(@, what),
                                !.expected_at = Append(@, Serial(r.p))]
               ELSE r.p,
               r.st, r.v)

\* Parser::put_back.
Parser_put_back(p, tok) ==
    IF p.next # <<>> THEN [p EXCEPT !.panicked = TRUE, !.put_back_twice = TRUE]
    ELSE [p EXCEPT !.next = <<tok>>,
                   !.slot_stale =
                       @ \/ p.pulled # <<[location |-> p.location, token |-> tok]>>]

\* The tokens that calls of next() would give from the parser p on: the token
\* in the slot, the rest of the input, and Eof if it was not given yet.
Unread(p) ==
    p.next \o [i \in 1..(Len(p.input) - p.ipos) |-> p.input[p.ipos + i].token]
           \o (IF p.eof THEN <<>> ELSE <<EofToken>>)

\* Parser::updated_location: the parser after the peek; the location is its
\* field.
updated_location(p) ==
    LET n == Parser("Parser_next", <<p, Lbl("")>>)
    IN  IF n.st = "Some" THEN Parser_put_back(n.p, n.v) ELSE n.p

\* Parser::annotate with no annotation tree attached (parse() attaches none):
\* only updated_location() acts.
annotate(p) == updated_location(p)

\* Parser::describe_parse_error: the parser after it and the error.
describe_parse_error(p) ==
    LET n == Parser("Parser_next", <<p, Lbl("")>>)
    IN  IF n.st = "Some"
        THEN LET p1 == Parser_put_back(n.p, n.v)
                 p2 == [p1 EXCEPT !.messages =
                            Append(@, [got |-> n.v, serial |-> Serial(n.p),
                                       labels |-> p.expected, at |-> p.expected_at])]
             IN  [p |-> p2,
                  e |-> [loc |-> p2.location, severity |-> "Error",
                         msg |-> "got, expected one of",
                         got |-> n.v, expected |-> p.expected]]
        ELSE [p |-> n.p,
              e |-> [loc |-> n.p.location, severity |-> "Error",
                     msg |-> "i/o error, expected one of",
                     got |-> EofToken, expected |-> p.expected]]

\* Parser::parse_error.
parse_error(p) ==
    LET d == Parser("describe_parse_error", <<p>>) IN Status(d.p, "Err", d.e)

\* Parser::require.
require(r) == IF r.st = "None" THEN parse_error(r.p) ELSE r

\* The `?` operator, the require! macro and the leading! macro, each followed
\* by the rest of the function K.
Try(r, K(_)) == IF r.st = "Err" THEN r ELSE K(r)

Require(r, K(_)) == LET q == require(r) IN IF q.st = "Err" THEN q ELSE K(q)

Leading(r, K(_)) == IF r.st # "Some" THEN r ELSE K(r)

\* A wrong try_another that drops the token, and one that puts it back twice,
\* to see the lookahead properties fail.
try_another_drops(p, tok) == Status(p, "None", <<>>)

try_another_twice(p, tok) ==
    Status(Parser_put_back(Parser_put_back(p, tok), tok), "None", <<>>)

\* Parser::try_another.
try_another(p, tok) == Status(Parser_put_back(p, tok), "None", <<>>)

\* Parser::exact.
exact(p, tok) ==
    Try(Parser("Parser_next", <<p, token_label(tok)>>),
        LAMBDA n : IF n.v = tok THEN SUCCESS(n.p) ELSE try_another(n.p, n.v))

\* Parser::ident.
ident(p) ==
    Try(Parser("Parser_next", <<updated_location(p), Lbl("identifier")>>),
        LAMBDA n : IF n.v.kind = "Ident" THEN success(annotate(n.p), n.v.text)
                   ELSE try_another(n.p, n.v))

\* Parser::exact_ident.
exact_ident(p, i) ==
    Try(Parser("Parser_next", <<p, LblIdent(i)>>),
        LAMBDA n : IF n.v.kind = "Ident" /\ n.v.text = i THEN SUCCESS(n.p)
                   ELSE try_another(n.p, n.v))

\* context.register_error from the parser.
Parser_register(p, e) == [p EXCEPT !.errors = Append(@, e)]

(***************************************************************************)
(* The operator table.  Strength is ordered as declared: an earlier        *)
(* strength is Less and binds tighter.                                     *)
(***************************************************************************)
Strength ==
    <<"Pow", "Mul", "Add", "Compare", "Shift", "Equality", "Bitwise", "And", "Or",
      "Assign", "In">>

OpInfo(strength, kind, op, token) ==
    [strength |-> strength, token |-> token, oper |-> [kind |-> kind, op |-> op]]

BINARY_OPS == <<
    OpInfo("Pow", "BinaryOp", "Pow", "Pow"),
    OpInfo("Mul", "BinaryOp", "Mul", "Mul"),
    OpInfo("Mul", "BinaryOp", "Div", "Slash"),
    OpInfo("Mul", "BinaryOp", "Mod", "Mod"),
    OpInfo("Add", "BinaryOp", "Add", "Add"),
    OpInfo("Add", "BinaryOp", "Sub", "Sub"),
    OpInfo("Compare", "BinaryOp", "Less", "Less"),
    OpInfo("Compare", "BinaryOp", "Greater", "Greater"),
    OpInfo("Compare", "BinaryOp", "LessEq", "LessEq"),
    OpInfo("Compare", "BinaryOp", "GreaterEq", "GreaterEq"),
    OpInfo("Shift", "BinaryOp", "LShift", "LShift"),
    OpInfo("Shift", "BinaryOp", "RShift", "RShift"),
    OpInfo("Equality", "BinaryOp", "Eq", "Eq"),
    OpInfo("Equality", "BinaryOp", "NotEq", "NotEq"),
    OpInfo("Equality", "BinaryOp", "NotEq", "LessGreater"),
    OpInfo("Equality", "BinaryOp", "Equiv", "Equiv"),
    OpInfo("Equality", "BinaryOp", "NotEquiv", "NotEquiv"),
    OpInfo("Bitwise", "BinaryOp", "BitAnd", "BitAnd"),
    OpInfo("Bitwise", "BinaryOp", "BitXor", "BitXor"),
    OpInfo("Bitwise", "BinaryOp", "BitOr", "BitOr"),
    OpInfo("And", "BinaryOp", "And", "And"),
    OpInfo("Or", "BinaryOp", "Or", "Or"),
    OpInfo("Assign", "AssignOp", "Assign", "Assign"),
    OpInfo("Assign", "AssignOp", "AddAssign", "AddAssign"),
    OpInfo("Assign", "AssignOp", "SubAssign", "SubAssign"),
    OpInfo("Assign", "AssignOp", "MulAssign", "MulAssign"),
    OpInfo("Assign", "AssignOp", "DivAssign", "DivAssign"),
    OpInfo("Assign", "AssignOp", "ModAssign", "ModAssign"),
    OpInfo("Assign", "AssignOp", "BitAndAssign", "BitAndAssign"),
    OpInfo("Assign", "AssignOp", "BitOrAssign", "BitOrAssign"),
    OpInfo("Assign", "AssignOp", "BitXorAssign", "BitXorAssign"),
    OpInfo("Assign", "AssignOp", "LShiftAssign", "LShiftAssign"),
    OpInfo("Assign", "AssignOp", "RShiftAssign", "RShiftAssign"),
    OpInfo("In", "BinaryOp", "In", "In") >>

\* Ord for Strength: "Less", "Equal" or "Greater".
strength_cmp(a, b) ==
    LET ia == CHOOSE i \in 1..Len(Strength) : Strength[i] = a
        ib == CHOOSE i \in 1..Len(Strength) : Strength[i] = b
    IN  IF ia < ib THEN "Less" ELSE IF ia > ib THEN "Greater" ELSE "Equal"

\* A wrong right_binding under which no strength folds to the right, to see
\* the associativity property fail.
right_binding_never(strength) == FALSE

\* Strength::right_binding.
right_binding(strength) == strength = "Assign"

\* BINARY_OPS.iter().find(|op| op.matches(&next)): <<>> or <<info>>.
find_op(tok) ==
    LET hits == SelectSeq(BINARY_OPS, LAMBDA op : tok.kind = "Punct" /\ op.token = tok.p)
    IN  IF hits = <<>> THEN <<>> ELSE <<hits[1]>>

\* Op::build.
build(oper, lhs, rhs) == [e |-> oper.kind, op |-> oper.op, lhs |-> lhs, rhs |-> rhs]

\* Expression::Base and Expression::TernaryOp.
Base(unary, term, follows) ==
    [e |-> "Base", unary |-> unary, term |-> term, follow |-> follows]

TernaryOp(cond, if_, else_) ==
    [e |-> "TernaryOp", cond |-> cond, if_ |-> if_, else_ |-> else_]

\* The two folds at the end of expression_part: bits and ops have the same
\* length; ops[i] stands between bits[i] and what follows it.
fold_right(bits, ops, rhs) ==
    IF bits = <<>> THEN rhs
    ELSE build(ops[1], bits[1], Parser("fold_right", <<Tail(bits), Tail(ops), rhs>>))

fold_left(bits, ops, k, result) ==
    IF k > Len(bits) THEN result
    ELSE Parser("fold_left", <<bits, ops, k + 1, build(ops[k - 1], result, bits[k])>>)

fold(prev_op, bits, ops, rhs) ==
    IF right_binding(prev_op.strength) THEN Parser("fold_right", <<bits, ops, rhs>>)
    ELSE build(ops[Len(ops)], Parser("fold_left", <<bits, ops, 2, bits[1]>>), rhs)


\* The ternary suffix of Parser::expression.
\* As expression_ternary, but the else branch is a single group, so a second
\* `?` after it is left unread.
expression_ternary_flat(p, expr) ==
    Try(Parser("exact", <<p, TokPunct("QuestionMark")>>),
        LAMBDA q :
            IF q.st # "Some" THEN success(q.p, expr)
            ELSE Require(Parser("expression", <<q.p>>), LAMBDA a :
                 Require(Parser("exact", <<a.p, TokPunct("Colon")>>), LAMBDA c :
                 Require(Parser("group", <<c.p>>), LAMBDA b :
                 success(b.p, TernaryOp(expr, a.v, b.v))))))

expression_ternary(p, expr) ==
    Try(Parser("exact", <<p, TokPunct("QuestionMark")>>),
        LAMBDA q :
            IF q.st # "Some" THEN success(q.p, expr)
            ELSE Require(Parser("expression", <<q.p>>), LAMBDA a :
                 Require(Parser("exact", <<a.p, TokPunct("Colon")>>), LAMBDA c :
                 Require(Parser("expression", <<c.p>>), LAMBDA b :
                 success(b.p, TernaryOp(expr, a.v, b.v))))))

\* The loop of Parser::expression.
expression_loop(p, expr) ==
    Try(Parser("Parser_next", <<p, Lbl("binary operator")>>),
        LAMBDA n :
            LET info == Parser("find_op", <<n.v>>)
            IN  IF info = <<>>
                THEN Parser("expression_ternary", <<Parser_put_back(n.p, n.v), expr>>)
                ELSE Require(Parser("expression_part", <<n.p, expr, info[1]>>),
                             LAMBDA e : Parser("expression_loop", <<e.p, e.v>>)))

\* Parser::expression.
expression(p) == Leading(Parser("group", <<p>>), LAMBDA g : Parser("expression_loop", <<g.p, g.v>>))

\* The loop of Parser::expression_part.
expression_part_loop(p, prev_op, bits, ops, rhs) ==
    Try(Parser("Parser_next", <<p, Lbl("binary operator")>>),
        LAMBDA n :
            LET info == Parser("find_op", <<n.v>>)
                c    == Parser("strength_cmp", <<info[1].strength, prev_op.strength>>)
            IN  IF info = <<>>
                THEN success(Parser_put_back(n.p, n.v), Parser("fold", <<prev_op, bits, ops, rhs>>))
                ELSE IF c = "Less"
                THEN Require(Parser("expression_part", <<n.p, rhs, info[1]>>),
                             LAMBDA e : Parser("expression_part_loop", <<e.p, prev_op, bits, ops, e.v>>))
                ELSE IF c = "Greater"
                THEN success(Parser_put_back(n.p, TokPunct(info[1].token)),
                             Parser("fold", <<prev_op, bits, ops, rhs>>))
                ELSE Require(Parser("group", <<n.p>>),
                             LAMBDA g : Parser("expression_part_loop", <<g.p, prev_op,
                                            Append(bits, rhs),
                                            Append(ops, info[1].oper), g.v>>)))

\* Parser::expression_part.
expression_part(p, lhs, prev_op) ==
    Require(Parser("group", <<p>>),
            LAMBDA g : Parser("expression_part_loop", <<g.p, prev_op, <<lhs>>, <<prev_op.oper>>, g.v>>))

\* The loop of Parser::group over the follows; unary_ops also takes the
\* postfix operators.
group_follow(p, unary_ops, t, follows) ==
    Try(Parser("exact", <<p, TokPunct("PlusPlus")>>), LAMBDA a :
        IF a.st = "Some"
        THEN Parser("group_follow", <<a.p, Append(unary_ops, "PostIncr"), t, follows>>)
        ELSE
    Try(Parser("exact", <<a.p, TokPunct("MinusMinus")>>), LAMBDA b :
        IF b.st = "Some"
        THEN Parser("group_follow", <<b.p, Append(unary_ops, "PostDecr"), t, follows>>)
        ELSE
    Try(Parser("follow", <<b.p>>), LAMBDA f :
        IF f.st = "Some"
        THEN Parser("group_follow", <<f.p, unary_ops, t, Append(follows, f.v)>>)
        ELSE IF unary_ops = <<>> /\ follows = <<>> /\ t.t = "Expr"
        THEN success(f.p, t.expr)
        ELSE success(f.p, Base(unary_ops, t, follows)))))

\* The loop of Parser::group over the unary operators, then the term.
group_unary(p, unary_ops) ==
    Try(Parser("Parser_next", <<p, Lbl("unary operator")>>), LAMBDA n :
        LET K(r) == Parser("group_follow", <<r.p, unary_ops, r.v, <<>>>>)
            p2   == Parser_put_back(n.p, n.v)
        IN  IF n.v = TokPunct("Sub") THEN Parser("group_unary", <<n.p, Append(unary_ops, "Neg")>>)
            ELSE IF n.v = TokPunct("Not") THEN Parser("group_unary", <<n.p, Append(unary_ops, "Not")>>)
            ELSE IF n.v = TokPunct("BitNot")
            THEN Parser("group_unary", <<n.p, Append(unary_ops, "BitNot")>>)
            ELSE IF n.v = TokPunct("PlusPlus")
            THEN Parser("group_unary", <<n.p, Append(unary_ops, "PreIncr")>>)
            ELSE IF n.v = TokPunct("MinusMinus")
            THEN Parser("group_unary", <<n.p, Append(unary_ops, "PreDecr")>>)
            ELSE IF unary_ops # <<>> THEN Require(Parser("term", <<p2>>), K)
            ELSE Leading(Parser("term", <<p2>>), K))

\* Parser::group.
group(p) == Parser("group_unary", <<p, <<>>>>)

\* Parser::path_separator.
path_separator(p) ==
    Try(Parser("Parser_next", <<p, Lbl("path separator")>>), LAMBDA n :
        IF n.v \in {TokPunct("Slash"), TokPunct("Dot"), TokPunct("Colon")}
        THEN success(n.p, n.v.p)
        ELSE Status(Parser_put_back(n.p, n.v), "None", <<>>))

\* The loop of Parser::prefab over the path elements after the first, then
\* the vars: the (key, value) pairs in the order vars.insert was called.
prefab_loop(p, parts) ==
    Try(Parser("path_separator", <<p>>), LAMBDA s :
        IF s.st = "Some"
        THEN Try(Parser("ident", <<s.p>>), LAMBDA i :
                 Parser("prefab_loop", <<i.p, IF i.st = "Some" THEN Append(parts, <<s.v, i.v>>)
                                  ELSE parts>>))
        ELSE
    Try(Parser("exact", <<s.p, TokPunct("LBrace")>>), LAMBDA b :
        IF b.st = "Some"
        THEN Try(Parser("separated", <<b.p, "Semicolon", "RBrace", <<<<>>>>, "prefab_var">>),
                 LAMBDA v : success(v.p, [path |-> parts,
                                          vars |-> SelectSeq(v.v, LAMBDA x : x # <<>>)]))
        ELSE success(b.p, [path |-> parts, vars |-> <<>>])))

\* Parser::prefab.
prefab(p) ==
    Leading(Parser("path_separator", <<p>>), LAMBDA s :
    Require(Parser("ident", <<s.p>>), LAMBDA i : Parser("prefab_loop", <<i.p, <<<<s.v, i.v>>>>>>)))

\* The closure prefab gives to separated: `key = value`.
prefab_var(p) ==
    Require(Parser("ident", <<p>>), LAMBDA k :
    Require(Parser("exact", <<k.p, TokPunct("Assign")>>), LAMBDA a :
    Require(Parser("expression", <<a.p>>), LAMBDA v : success(v.p, <<k.v, v.v>>))))

\* Parser::follow_index.
follow_index(p, kind) ==
    Require(Parser("ident", <<p>>), LAMBDA i :
    Try(Parser("arguments", <<i.p>>), LAMBDA a :
        IF a.st = "Some"
        THEN success(a.p, [f |-> "Call", kind |-> kind, ident |-> i.v, args |-> a.v])
        ELSE success(a.p, [f |-> "Field", kind |-> kind, ident |-> i.v])))

\* Parser::follow.
follow(p) ==
    Try(Parser("Parser_next", <<p, Lbl("index, field, method call")>>), LAMBDA n :
        IF n.v = TokPunct("LBracket")
        THEN Require(Parser("expression", <<n.p>>), LAMBDA e :
             Require(Parser("exact", <<e.p, TokPunct("RBracket")>>), LAMBDA r :
             success(r.p, [f |-> "Index", expr |-> e.v])))
        ELSE IF n.v \in {TokPunct("Dot"), TokPunct("SafeDot"), TokPunct("SafeColon")}
        THEN Parser("follow_index", <<n.p, n.v.p>>)
        ELSE try_another(n.p, n.v))

\* Parser::arguments.
arguments(p) ==
    Leading(Parser("exact", <<p, TokPunct("LParen")>>), LAMBDA l :
    Require(Parser("separated", <<l.p, "Comma", "RParen",
                      <<Base(<<>>, [t |-> "Null"], <<>>)>>, "expression">>),
            LAMBDA s : success(s.p, s.v)))

\* The element parsers separated is called with.
separated_elem(p, f) ==
    CASE f = "expression" -> Parser("expression", <<p>>)
      [] f = "case" -> Parser("case", <<p>>)
      [] f = "prefab_var" -> Parser("prefab_var", <<p>>)
      [] f = "proc_parameter" -> Parser("proc_parameter", <<p>>)

\* A wrong loop that takes every separator as an empty element, to see the
\* list properties fail.
separated_loop_every(p, sep, terminator, allow_empty, f, comma_legal, elems) ==
    Try(Parser("exact", <<p, TokPunct(terminator)>>), LAMBDA t :
        IF t.st = "Some" THEN success(t.p, elems)
        ELSE
    Try(Parser("exact", <<t.p, TokPunct(sep)>>), LAMBDA s :
        IF s.st = "Some"
        THEN IF allow_empty # <<>>
             THEN Parser("separated_loop", <<s.p, sep, terminator, allow_empty, f, FALSE,
                                 Append(elems, allow_empty[1])>>)
             ELSE parse_error(s.p)
        ELSE IF ~comma_legal
        THEN Require(separated_elem(s.p, f), LAMBDA v :
                 Parser("separated_loop", <<v.p, sep, terminator, allow_empty, f, TRUE,
                                Append(elems, v.v)>>))
        ELSE parse_error(s.p)))

\* The loop of Parser::separated; allow_empty is <<>> (None) or <<empty>>.
separated_loop(p, sep, terminator, allow_empty, f, comma_legal, elems) ==
    Try(Parser("exact", <<p, TokPunct(terminator)>>), LAMBDA t :
        IF t.st = "Some" THEN success(t.p, elems)
        ELSE
    Try(Parser("exact", <<t.p, TokPunct(sep)>>), LAMBDA s :
        IF s.st = "Some"
        THEN IF comma_legal
             THEN Parser("separated_loop", <<s.p, sep, terminator, allow_empty, f, FALSE, elems>>)
             ELSE IF allow_empty # <<>>
             THEN Parser("separated_loop", <<s.p, sep, terminator, allow_empty, f, FALSE,
                                 Append(elems, allow_empty[1])>>)
             ELSE parse_error(s.p)
        ELSE IF ~comma_legal
        THEN Require(separated_elem(s.p, f), LAMBDA v :
                 Parser("separated_loop", <<v.p, sep, terminator, allow_empty, f, TRUE,
                                Append(elems, v.v)>>))
        ELSE parse_error(s.p)))

\* Parser::separated.
separated(p, sep, terminator, allow_empty, f) ==
    Parser("separated_loop", <<p, sep, terminator, allow_empty, f, FALSE, <<>>>>)

\* InputType::from_str knows these names (the type is defined outside the two
\* files; the names are those of the language reference).
InputTypeNames ==
    {Bytes(<<"m", "o", "b">>), Bytes(<<"o", "b", "j">>), Bytes(<<"t", "e", "x", "t">>),
     Bytes(<<"n", "u", "m">>), Bytes(<<"t", "u", "r", "f">>), Bytes(<<"a", "r", "e", "a">>),
     Bytes(<<"n", "u", "l", "l">>), Bytes(<<"a", "n", "y", "t", "h", "i", "n", "g">>)}

\* One `ident` of Parser::input_type: the type with the name added, and the
\* error registered when the name is unknown.
input_type_add(p, as_what, name) ==
    IF name \in InputTypeNames THEN [p |-> p, v |-> as_what \cup {name}]
    ELSE [p |-> Parser_register(p, Parser_error(p, "bad input type")), v |-> as_what]

\* The loop of Parser::input_type.
input_type_loop(p, as_what) ==
    Try(Parser("exact", <<p, TokPunct("BitOr")>>), LAMBDA b :
        IF b.st # "Some" THEN success(b.p, as_what)
        ELSE Require(Parser("ident", <<b.p>>), LAMBDA i :
                 LET a == Parser("input_type_add", <<i.p, as_what, i.v>>)
                 IN  Parser("input_type_loop", <<a.p, a.v>>)))

\* Parser::input_type.
input_type(p) ==
    Leading(Parser("ident", <<p>>), LAMBDA i :
        LET a == Parser("input_type_add", <<i.p, {}, i.v>>) IN Parser("input_type_loop", <<a.p, a.v>>))

\* Parser::input_specifier: v is <<input_type, in_list>>, in_list an Option.
input_specifier(p) ==
    LET In(q, ty) ==
            Try(Parser("exact", <<q, TokPunct("In")>>), LAMBDA i :
                IF i.st = "Some"
                THEN Require(Parser("expression", <<i.p>>), LAMBDA e : success(e.p, <<ty, <<e.v>>>>))
                ELSE success(i.p, <<ty, <<>>>>))
    IN  Try(Parser("exact_ident", <<p, Bytes(<<"a", "s">>)>>), LAMBDA a :
            IF a.st = "Some"
            THEN Require(input_type(a.p), LAMBDA t : In(t.p, t.v))
            ELSE In(a.p, {}))

\* Parser::case.
case(p) ==
    Require(Parser("expression", <<p>>), LAMBDA first :
    Try(Parser("exact_ident", <<first.p, Bytes(<<"t", "o">>)>>), LAMBDA t :
        IF t.st = "Some"
        THEN Require(Parser("expression", <<t.p>>), LAMBDA e :
                 success(e.p, [c |-> "Range", first |-> first.v, last |-> e.v]))
        ELSE success(t.p, [c |-> "Exact", first |-> first.v])))

\* The loop of Parser::ignore_group.
ignore_group_loop(p, left, right, depth) ==
    IF depth <= 0 THEN SUCCESS(p)
    ELSE Try(Parser("Parser_next", <<p, Lbl("anything")>>), LAMBDA n :
             Parser("ignore_group_loop", <<n.p, left, right,
                 IF n.v = TokPunct(left) THEN depth + 1
                 ELSE IF n.v = TokPunct(right) THEN depth - 1
                 ELSE depth>>))

\* Parser::ignore_group.
ignore_group(p, left, right) ==
    Leading(Parser("exact", <<p, TokPunct(left)>>), LAMBDA l : Parser("ignore_group_loop", <<l.p, left, right, 1>>))

\* Parser::var_annotations.
var_annotations(p) ==
    Try(Parser("exact", <<p, TokPunct("LBracket")>>), LAMBDA b :
        IF b.st # "Some" THEN SUCCESS(b.p)
        ELSE Require(ignore_group(Parser_put_back(b.p, TokPunct("LBracket")),
                                  "LBracket", "RBracket"),
                     LAMBDA g : Parser("var_annotations", <<g.p>>)))

\* The loop of Parser::tree_path over `('/' ident?)*`.
tree_path_loop(p, absolute, parts) ==
    Try(Parser("Parser_next", <<p, Lbl("'/'")>>), LAMBDA n :
        LET sep  == n.v = TokPunct("Slash")
            warn == n.v \in {TokPunct("Dot"), TokPunct("Colon")}
            p1   == IF warn
                    THEN Parser_register(n.p,
                             Parser_warning(n.p, "path separated by, should be '/'"))
                    ELSE n.p
        IN  IF sep \/ warn
            THEN Try(Parser("ident", <<p1>>), LAMBDA i :
                     Parser("tree_path_loop", <<i.p, absolute,
                                    IF i.st = "Some" THEN Append(parts, i.v) ELSE parts>>))
            ELSE success(annotate(Parser_put_back(n.p, n.v)),
                         [absolute |-> absolute, parts |-> parts]))

\* Parser::tree_path: v is [absolute, parts].
tree_path(p) ==
    Try(Parser("Parser_next", <<updated_location(p), Lbl("'/'")>>), LAMBDA n :
        LET absolute == n.v = TokPunct("Slash")
            spurious == n.v \in {TokPunct("Dot"), TokPunct("Colon")}
            p1 == IF absolute THEN n.p
                  ELSE IF spurious
                  THEN Parser_register(n.p,
                           Parser_warning(n.p, "path started by, should be unprefixed"))
                  ELSE Parser_put_back(n.p, n.v)
        IN  Try(Parser("ident", <<p1>>), LAMBDA i :
                IF i.st = "Some" THEN Parser("tree_path_loop", <<i.p, absolute, <<i.v>>>>)
                ELSE IF ~(absolute \/ spurious) THEN Status(i.p, "None", <<>>)
                ELSE success(Parser_register(i.p, Parser_error(i.p, "path has no effect")),
                             [absolute |-> absolute, parts |-> <<>>])))

\* Parser::proc_parameter.
proc_parameter(p) ==
    Try(Parser("exact", <<p, TokPunct("Ellipsis")>>), LAMBDA e :
        IF e.st = "Some"
        THEN success(e.p, [name |-> Bytes(<<".", ".", ".">>), path |-> <<>>,
                           default |-> <<>>, input_type |-> {}, in_list |-> <<>>])
        ELSE
    Leading(Parser("tree_path", <<e.p>>), LAMBDA t :
        LET n     == Len(t.v.parts)
            name  == t.v.parts[n]
            front == SubSeq(t.v.parts, 1, n - 1)
            path  == IF front # <<>> /\ front[1] = Bytes(<<"v", "a", "r">>)
                     THEN Tail(front) ELSE front
            Rest(q, default) ==
                Require(Parser("input_specifier", <<q>>), LAMBDA s :
                    success(s.p, [name |-> name, path |-> path, default |-> default,
                                  input_type |-> s.v[1], in_list |-> s.v[2]]))
        IN  IF n = 0 THEN Status([t.p EXCEPT !.panicked = TRUE], "Err",
                                 Parser_error(t.p, "unwrap on None"))
            ELSE
            Require(Parser("var_annotations", <<t.p>>), LAMBDA a :
            Try(Parser("exact", <<a.p, TokPunct("Assign")>>), LAMBDA q :
                IF q.st = "Some"
                THEN Require(Parser("expression", <<q.p>>), LAMBDA d : Rest(d.p, <<d.v>>))
                ELSE Rest(q.p, <<>>)))))

\* The loop of the InterpStringBegin arm of Parser::term.
term_interp(p, begin, parts) ==
    Try(Parser("expression", <<p>>), LAMBDA e :
    Try(Parser("Parser_next", <<e.p, Lbl("']'")>>), LAMBDA n :
        LET expr == IF e.st = "Some" THEN <<e.v>> ELSE <<>>
        IN  IF n.v.kind = "InterpStringPart"
            THEN Parser("term_interp", <<n.p, begin, Append(parts, <<expr, n.v.text>>)>>)
            ELSE IF n.v.kind = "InterpStringEnd"
            THEN success(n.p, [t |-> "InterpString", begin |-> begin,
                               parts |-> Append(parts, <<expr, n.v.text>>)])
            ELSE parse_error(n.p)))

\* The `new` arm of Parser::term.
term_new(p) ==
    LET Args(q, ty) ==
            Try(Parser("arguments", <<q>>), LAMBDA a :
                success(a.p, [t |-> "New", type_ |-> ty,
                              args |-> IF a.st = "Some" THEN <<a.v>> ELSE <<>>]))
    IN  Try(Parser("ident", <<p>>), LAMBDA i :
            IF i.st = "Some" THEN Args(i.p, [n |-> "Ident", v |-> i.v])
            ELSE Try(Parser("prefab", <<i.p>>), LAMBDA f :
                     IF f.st = "Some" THEN Args(f.p, [n |-> "Prefab", v |-> f.v])
                     ELSE Args(f.p, [n |-> "Implicit"])))

\* The arms of Parser::term for an identifier.
term_ident(p, i) ==
    LET Var(q) == success(q, [t |-> "Ident", v |-> i])
        InList(q, K(_)) ==
            Try(Parser("exact", <<q, TokPunct("In")>>), LAMBDA n :
                IF n.st = "Some" THEN Require(Parser("expression", <<n.p>>), LAMBDA e : K(e))
                ELSE K(Status(n.p, "None", <<>>)))
    IN  IF i = Bytes(<<"n", "e", "w">>) THEN Parser("term_new", <<p>>)
        ELSE IF i = Bytes(<<"l", "i", "s", "t">>)
        THEN Try(Parser("arguments", <<p>>), LAMBDA a :
                 IF a.st = "Some" THEN success(a.p, [t |-> "List", args |-> a.v])
                 ELSE Var(a.p))
        ELSE IF i = Bytes(<<"c", "a", "l", "l">>)
        THEN Require(Parser("arguments", <<p>>), LAMBDA a :
             Require(Parser("arguments", <<a.p>>), LAMBDA b :
             success(b.p, [t |-> "DynamicCall", target |-> a.v, args |-> b.v])))
        ELSE IF i = Bytes(<<"i", "n", "p", "u", "t">>)
        THEN Try(Parser("arguments", <<p>>), LAMBDA a :
                 IF a.st = "Some"
                 THEN Require(Parser("input_specifier", <<a.p>>), LAMBDA s :
                          success(s.p, [t |-> "Input", args |-> a.v,
                                        input_type |-> s.v[1], in_list |-> s.v[2]]))
                 ELSE Var(a.p))
        ELSE IF i = Bytes(<<"l", "o", "c", "a", "t", "e">>)
        THEN Try(Parser("arguments", <<p>>), LAMBDA a :
                 IF a.st = "Some"
                 THEN LET bad == /\ a.v # <<>>
                                 /\ a.v[1].e = "BinaryOp"
                                 /\ a.v[1].op = "In"
                          p1  == IF bad
                                 THEN Parser_register(a.p,
                                          Parser_warning(a.p, "bad 'locate(in)', should be 'locate() in'"))
                                 ELSE a.p
                      IN  InList(p1, LAMBDA e :
                              success(e.p, [t |-> "Locate", args |-> a.v,
                                            in_list |-> IF e.st = "Some" THEN <<e.v>>
                                                        ELSE <<>>]))
                 ELSE Var(a.p))
        ELSE Try(Parser("arguments", <<p>>), LAMBDA a :
                 IF a.st = "Some" THEN success(a.p, [t |-> "Call", v |-> i, args |-> a.v])
                 ELSE Var(a.p))

\* Parser::term.
term(p) ==
    Try(Parser("Parser_next", <<p, Lbl("term")>>), LAMBDA n :
        LET tok == n.v
        IN  IF tok.kind = "Ident" THEN Parser("term_ident", <<n.p, tok.text>>)
            ELSE IF tok = TokPunct("Super")
            THEN Require(Parser("arguments", <<n.p>>), LAMBDA a :
                     success(a.p, [t |-> "ParentCall", args |-> a.v]))
            ELSE IF tok = TokPunct("Dot")
            THEN Try(Parser("ident", <<n.p>>), LAMBDA i :
                     IF i.st = "Some"
                     THEN Try(Parser("prefab", <<i.p>>), LAMBDA f :
                              success(f.p,
                                  [t |-> "Prefab",
                                   path |-> <<<<"Dot", i.v>>>> \o
                                            (IF f.st = "Some" THEN f.v.path ELSE <<>>),
                                   vars |-> IF f.st = "Some" THEN f.v.vars ELSE <<>>]))
                     ELSE success(i.p, [t |-> "Ident", v |-> Bytes(<<".">>)]))
            ELSE IF tok \in {TokPunct("Slash"), TokPunct("Colon")}
            THEN Require(Parser("prefab", <<Parser_put_back(n.p, tok)>>), LAMBDA f :
                     success(f.p, [t |-> "Prefab", path |-> f.v.path, vars |-> f.v.vars]))
            ELSE IF tok.kind \in {"String", "Resource"}
            THEN success(n.p, [t |-> tok.kind, v |-> tok.text])
            ELSE IF tok.kind = "Int"
            THEN success(n.p, [t |-> "Int", v |-> tok.num])
            ELSE IF tok.kind = "Float"
            THEN success(n.p, [t |-> "Float", v |-> tok.text])
            ELSE IF tok = TokPunct("LParen")
            THEN Require(Parser("expression", <<n.p>>), LAMBDA e :
                 Require(Parser("exact", <<e.p, TokPunct("RParen")>>), LAMBDA r :
                 success(r.p, [t |-> "Expr", expr |-> e.v])))
            ELSE IF tok.kind = "InterpStringBegin"
            THEN Parser("term_interp", <<n.p, tok.text, <<>>>>)
            ELSE try_another(n.p, tok))

(***************************************************************************)
(* Statements.  A Statement is a record tagged by s.                       *)
(***************************************************************************)

\* Err(self.error(msg)).
Err(p, msg) == Status(p, "Err", Parser_error(p, msg))

\* VarType::is_tmp of the type collected from the path: `tmp` appears in it.
is_tmp(var_type) == \E i \in 1..Len(var_type) : var_type[i] = Bytes(<<"t", "m", "p">>)

\* Parser::comma_or_semicolon.
comma_or_semicolon(p) ==
    Try(Parser("exact", <<p, TokPunct("Comma")>>), LAMBDA c :
        IF c.st = "Some" THEN SUCCESS(c.p)
        ELSE Try(Parser("exact", <<c.p, TokPunct("Semicolon")>>), LAMBDA s :
                 IF s.st = "Some" THEN SUCCESS(s.p)
                 ELSE Status(s.p, "None", <<>>)))

\* The `var` arm of Parser::simple_statement.
simple_statement_var(p, in_for) ==
    LET type_path_start == p.location
    IN  Require(Parser("tree_path", <<p>>), LAMBDA t :
        IF t.v.parts = <<>> THEN Err(t.p, "'var' must be followed by a name")
        ELSE
        Require(Parser("var_annotations", <<t.p>>), LAMBDA a :
            LET n        == Len(t.v.parts)
                name     == t.v.parts[n]
                var_type == SubSeq(t.v.parts, 1, n - 1)
                p1 == IF Parser("is_tmp", <<var_type>>)
                      THEN Parser_register(a.p, DMError(type_path_start, "Warning",
                                                        "var/tmp has no effect here"))
                      ELSE a.p
                Spec(q, value) ==
                    LET Done(r, input_types, in_list) ==
                            success(IF input_types # {} \/ in_list # <<>>
                                    THEN Parser_register(r,
                                             Parser_warning(r, "input specifier has no effect here"))
                                    ELSE r,
                                    [s |-> "Var", var_type |-> var_type, name |-> name,
                                     value |-> value])
                    IN  IF ~in_for
                        THEN Require(Parser("input_specifier", <<q>>), LAMBDA i :
                                 Done(i.p, i.v[1], i.v[2]))
                        ELSE Done(q, {}, <<>>)
            IN  Try(Parser("exact", <<p1, TokPunct("Assign")>>), LAMBDA e :
                    IF e.st = "Some"
                    THEN Require(Parser("expression", <<e.p>>), LAMBDA v : Spec(v.p, <<v.v>>))
                    ELSE Spec(e.p, <<>>))))

\* Parser::simple_statement.
simple_statement(p, in_for) ==
    Try(Parser("exact_ident", <<p, Bytes(<<"v", "a", "r">>)>>), LAMBDA v :
        IF v.st = "Some" THEN Parser("simple_statement_var", <<v.p, in_for>>)
        ELSE
    Try(Parser("exact_ident", <<v.p, Bytes(<<"r", "e", "t", "u", "r", "n">>)>>), LAMBDA r :
        IF r.st = "Some"
        THEN Try(Parser("expression", <<r.p>>), LAMBDA e :
                 success(e.p, [s |-> "Return",
                               expr |-> IF e.st = "Some" THEN <<e.v>> ELSE <<>>]))
        ELSE
    Try(Parser("exact_ident", <<r.p, Bytes(<<"t", "h", "r", "o", "w">>)>>), LAMBDA t :
        IF t.st = "Some"
        THEN Require(Parser("expression", <<t.p>>), LAMBDA e :
                 success(e.p, [s |-> "Throw", expr |-> e.v]))
        ELSE Leading(Parser("expression", <<t.p>>), LAMBDA e :
                 success(e.p, [s |-> "Expr", expr |-> e.v])))))

\* `'(' expression ')'`, as the block statements read their condition.
condition(p) ==
    Require(Parser("exact", <<p, TokPunct("LParen")>>), LAMBDA l :
    Require(Parser("expression", <<l.p>>), LAMBDA e :
    Require(Parser("exact", <<e.p, TokPunct("RParen")>>), LAMBDA r : success(r.p, e.v))))

\* As for_range, but `step s` is read and then forgotten.
for_range_drops_step(p, var_type, name, start) ==
    LET Rest(q, end) ==
            Require(Parser("exact", <<q, TokPunct("RParen")>>), LAMBDA r :
            Require(Parser("block", <<r.p>>), LAMBDA b :
            success(b.p, [s |-> "ForRange", var_type |-> var_type, name |-> name,
                          start |-> start, end |-> end, step |-> <<>>,
                          block |-> b.v])))
    IN  Require(Parser("expression", <<p>>), LAMBDA e :
        Try(Parser("exact_ident", <<e.p, Bytes(<<"s", "t", "e", "p">>)>>), LAMBDA s :
            IF s.st = "Some"
            THEN Require(Parser("expression", <<s.p>>), LAMBDA v : Rest(v.p, e.v))
            ELSE Rest(s.p, e.v)))

\* Parser::for_range; var_type is an Option.
for_range(p, var_type, name, start) ==
    LET Rest(q, end, step) ==
            Require(Parser("exact", <<q, TokPunct("RParen")>>), LAMBDA r :
            Require(Parser("block", <<r.p>>), LAMBDA b :
            success(b.p, [s |-> "ForRange", var_type |-> var_type, name |-> name,
                          start |-> start, end |-> end, step |-> step,
                          block |-> b.v])))
    IN  Require(Parser("expression", <<p>>), LAMBDA e :
        Try(Parser("exact_ident", <<e.p, Bytes(<<"s", "t", "e", "p">>)>>), LAMBDA s :
            IF s.st = "Some"
            THEN Require(Parser("expression", <<s.p>>), LAMBDA v : Rest(v.p, e.v, <<v.v>>))
            ELSE Rest(s.p, e.v, <<>>)))

\* The loop of the `if` arm of Parser::statement over the `else` arms.
statement_if_loop(p, arms) ==
    Try(Parser("exact_ident", <<p, Bytes(<<"e", "l", "s", "e">>)>>), LAMBDA e :
        IF e.st # "Some" THEN success(e.p, [s |-> "If", arms |-> arms, else_arm |-> <<>>])
        ELSE
    Try(Parser("exact_ident", <<e.p, Bytes(<<"i", "f">>)>>), LAMBDA i :
        IF i.st = "Some"
        THEN Require(Parser("condition", <<i.p>>), LAMBDA c :
             Require(Parser("block", <<c.p>>), LAMBDA b :
             Parser("statement_if_loop", <<b.p, Append(arms, <<c.v, b.v>>)>>)))
        ELSE Require(Parser("block", <<i.p>>), LAMBDA b :
                 success(b.p, [s |-> "If", arms |-> arms, else_arm |-> <<b.v>>]))))

\* The in-list form of the `for` arm of Parser::statement, after the variable.
statement_for_list(p, var_type, name) ==
    LET Rest(q, ty, in_list) ==
            Require(Parser("exact", <<q, TokPunct("RParen")>>), LAMBDA r :
            Require(Parser("block", <<r.p>>), LAMBDA b :
            success(b.p, [s |-> "ForList", var_type |-> var_type, name |-> name,
                          input_type |-> ty, in_list |-> in_list,
                          block |-> b.v])))
        In(q, ty) ==
            Try(Parser("exact", <<q, TokPunct("In")>>), LAMBDA i :
                IF i.st # "Some" THEN Rest(i.p, ty, <<>>)
                ELSE Require(Parser("expression", <<i.p>>), LAMBDA v :
                     Try(Parser("exact_ident", <<v.p, Bytes(<<"t", "o">>)>>), LAMBDA t :
                         IF t.st = "Some"
                         THEN Require(Parser("for_range", <<t.p, var_type, name, v.v>>), LAMBDA f : f)
                         ELSE Rest(t.p, ty, <<v.v>>))))
    IN  Try(Parser("exact_ident", <<p, Bytes(<<"a", "s">>)>>), LAMBDA a :
            IF a.st = "Some"
            THEN Require(input_type(a.p), LAMBDA t : In(t.p, t.v))
            ELSE In(a.p, {}))

\* The `for` arm of Parser::statement.
statement_for(p) ==
    Require(Parser("exact", <<p, TokPunct("LParen")>>), LAMBDA l :
    Try(Parser("simple_statement", <<l.p, TRUE>>), LAMBDA init :
    Try(Parser("comma_or_semicolon", <<init.p>>), LAMBDA c :
        IF c.st = "Some"
        THEN Try(Parser("expression", <<c.p>>), LAMBDA test :
             Require(Parser("comma_or_semicolon", <<test.p>>), LAMBDA c2 :
             Try(Parser("simple_statement", <<c2.p, FALSE>>), LAMBDA inc :
             Require(Parser("exact", <<inc.p, TokPunct("RParen")>>), LAMBDA r :
             Require(Parser("block", <<r.p>>), LAMBDA b :
             success(b.p, [s |-> "ForLoop",
                           init |-> IF init.st = "Some" THEN <<init.v>> ELSE <<>>,
                           test |-> IF test.st = "Some" THEN <<test.v>> ELSE <<>>,
                           inc |-> IF inc.st = "Some" THEN <<inc.v>> ELSE <<>>,
                           block |-> b.v]))))))
        ELSE IF init.st = "Some"
        THEN IF init.v.s = "Var" /\ init.v.value # <<>>
             THEN Require(Parser("exact_ident", <<c.p, Bytes(<<"t", "o">>)>>), LAMBDA t :
                  Require(Parser("for_range", <<t.p, <<init.v.var_type>>, init.v.name,
                                    init.v.value[1]>>),
                          LAMBDA f : f))
             ELSE IF init.v.s = "Var"
             THEN Parser("statement_for_list", <<c.p, <<init.v.var_type>>, init.v.name>>)
             ELSE IF /\ init.v.s = "Expr"
                     /\ init.v.expr.e = "Base"
                     /\ init.v.expr.term.t = "Ident"
             THEN IF init.v.expr.unary # <<>> \/ init.v.expr.follow # <<>>
                  THEN Err(c.p, "for-list must start with variable")
                  ELSE Parser("statement_for_list", <<c.p, <<>>, init.v.expr.term.v>>)
             ELSE Err(c.p, "for-list must start with variable")
        ELSE Err(c.p, "for-in-list must start with variable"))))


\* The `spawn` arm of Parser::statement.
statement_spawn(p) ==
    LET Rest(q, expr) ==
            Require(Parser("block", <<q>>), LAMBDA b :
                success(b.p, [s |-> "Spawn", expr |-> expr, block |-> b.v]))
    IN  Try(Parser("exact", <<p, TokPunct("LParen")>>), LAMBDA l :
            IF l.st = "Some"
            THEN Try(Parser("expression", <<l.p>>), LAMBDA e :
                 Require(Parser("exact", <<e.p, TokPunct("RParen")>>), LAMBDA r :
                 Rest(r.p, IF e.st = "Some" THEN <<e.v>> ELSE <<>>)))
            ELSE Rest(l.p, <<>>))

\* The loop of the `switch` arm of Parser::statement over the cases, then the
\* default and the closing brace.
statement_switch_loop(p, expr, cases) ==
    LET Close(q, default) ==
            Require(Parser("exact", <<q, TokPunct("RBrace")>>), LAMBDA r :
                success(r.p, [s |-> "Switch", expr |-> expr, cases |-> cases,
                              default |-> default]))
    IN  Try(Parser("exact_ident", <<p, Bytes(<<"i", "f">>)>>), LAMBDA i :
            IF i.st = "Some"
            THEN Require(Parser("exact", <<i.p, TokPunct("LParen")>>), LAMBDA l :
                 Require(Parser("separated", <<l.p, "Comma", "RParen", <<>>, "case">>), LAMBDA w :
                     LET p1 == IF w.v = <<>>
                               THEN Parser_register(w.p,
                                        Parser_error(w.p, "switch case cannot be empty"))
                               ELSE w.p
                     IN  Require(Parser("block", <<p1>>), LAMBDA b :
                             Parser("statement_switch_loop", <<b.p, expr,
                                                   Append(cases, <<w.v, b.v>>)>>))))
            ELSE
        Try(Parser("exact_ident", <<i.p, Bytes(<<"e", "l", "s", "e">>)>>), LAMBDA e :
            IF e.st = "Some"
            THEN Require(Parser("block", <<e.p>>), LAMBDA b : Close(b.p, <<b.v>>))
            ELSE Close(e.p, <<>>)))

\* The `set` arm of Parser::statement.
statement_set(p) ==
    LET Rest(q, name, mode) ==
            Require(Parser("expression", <<q>>), LAMBDA v :
            Require(Parser("exact", <<v.p, TokPunct("Semicolon")>>), LAMBDA s :
            success(s.p, [s |-> "Setting", name |-> name, mode |-> mode,
                          value |-> v.v])))
    IN  Require(Parser("ident", <<p>>), LAMBDA n :
        Try(Parser("exact", <<n.p, TokPunct("Assign")>>), LAMBDA a :
            IF a.st = "Some" THEN Rest(a.p, n.v, "Assign")
            ELSE Try(Parser("exact", <<a.p, TokPunct("In")>>), LAMBDA i :
                     IF i.st = "Some" THEN Rest(i.p, n.v, "In")
                     ELSE parse_error(i.p))))

\* Parser::statement.
statement(p) ==
    Try(Parser("exact_ident", <<p, Bytes(<<"i", "f">>)>>), LAMBDA k1 :
        IF k1.st = "Some"
        THEN Require(Parser("condition", <<k1.p>>), LAMBDA c :
             Require(Parser("block", <<c.p>>), LAMBDA b :
             Parser("statement_if_loop", <<b.p, <<<<c.v, b.v>>>>>>)))
        ELSE
    Try(Parser("exact_ident", <<k1.p, Bytes(<<"w", "h", "i", "l", "e">>)>>), LAMBDA k2 :
        IF k2.st = "Some"
        THEN Require(Parser("condition", <<k2.p>>), LAMBDA c :
             Require(Parser("block", <<c.p>>), LAMBDA b :
             success(b.p, [s |-> "While", expr |-> c.v, block |-> b.v])))
        ELSE
    Try(Parser("exact_ident", <<k2.p, Bytes(<<"d", "o">>)>>), LAMBDA k3 :
        IF k3.st = "Some"
        THEN Require(Parser("block", <<k3.p>>), LAMBDA b :
             Require(Parser("exact_ident", <<b.p, Bytes(<<"w", "h", "i", "l", "e">>)>>), LAMBDA w :
             Require(Parser("condition", <<w.p>>), LAMBDA c :
             Require(Parser("exact", <<c.p, TokPunct("Semicolon")>>), LAMBDA s :
             success(s.p, [s |-> "DoWhile", block |-> b.v, expr |-> c.v])))))
        ELSE
    Try(Parser("exact_ident", <<k3.p, Bytes(<<"f", "o", "r">>)>>), LAMBDA k4 :
        IF k4.st = "Some" THEN Parser("statement_for", <<k4.p>>)
        ELSE
    Try(Parser("exact_ident", <<k4.p, Bytes(<<"s", "p", "a", "w", "n">>)>>), LAMBDA k5 :
        IF k5.st = "Some" THEN Parser("statement_spawn", <<k5.p>>)
        ELSE
    Try(Parser("exact_ident", <<k5.p, Bytes(<<"s", "w", "i", "t", "c", "h">>)>>), LAMBDA k6 :
        IF k6.st = "Some"
        THEN Require(Parser("condition", <<k6.p>>), LAMBDA c :
             Require(Parser("exact", <<c.p, TokPunct("LBrace")>>), LAMBDA l :
             Parser("statement_switch_loop", <<l.p, c.v, <<>>>>)))
        ELSE
    Try(Parser("exact_ident", <<k6.p, Bytes(<<"s", "e", "t">>)>>), LAMBDA k7 :
        IF k7.st = "Some" THEN Parser("statement_set", <<k7.p>>)
        ELSE Leading(Parser("simple_statement", <<k7.p, FALSE>>), LAMBDA r :
             Require(Parser("exact", <<r.p, TokPunct("Semicolon")>>), LAMBDA s :
             success(s.p, r.v))))))))))

\* The loop of Parser::block inside the braces.
block_loop(p, statements) ==
    Try(Parser("exact", <<p, TokPunct("RBrace")>>), LAMBDA r :
        IF r.st = "Some" THEN success(r.p, statements)
        ELSE
    Try(Parser("exact", <<r.p, TokPunct("Semicolon")>>), LAMBDA s :
        IF s.st = "Some" THEN Parser("block_loop", <<s.p, statements>>)
        ELSE Require(Parser("statement", <<s.p>>), LAMBDA st :
                 Parser("block_loop", <<st.p, Append(statements, st.v)>>))))

\* Parser::block.
block(p) ==
    Try(Parser("exact", <<p, TokPunct("LBrace")>>), LAMBDA b :
        IF b.st = "Some" THEN Parser("block_loop", <<b.p, <<>>>>)
        ELSE
    Try(Parser("exact", <<b.p, TokPunct("Semicolon")>>), LAMBDA s :
        IF s.st = "Some" THEN success(s.p, <<>>)
        ELSE Require(Parser("statement", <<s.p>>), LAMBDA st : success(st.p, <<st.v>>))))

(***************************************************************************)
(* The object tree.  The tree builder is outside the two files: the model  *)
(* keeps the calls made to it, in order, and every call is accepted.  A    *)
(* PathStack is [parent, parts]: parent is <<>> (None) or <<stack>>, the    *)
(* stack of the enclosing block.                                           *)
(***************************************************************************)
PathStack(parent, parts) == [parent |-> parent, parts |-> parts]

\* PathStack::iter, the vector `rest`: the parts of the stack, then those of
\* its parent, and so on.
RECURSIVE PathStack_rest(_)
PathStack_rest(stack) ==
    <<stack.parts>>
        \o (IF stack.parent = <<>> THEN <<>> ELSE PathStack_rest(stack.parent[1]))

\* PathStackIter::next until None: the slices of `rest` are popped from its
\* end and each is given from its first item on.
RECURSIVE PathStackIter_collect(_)
PathStackIter_collect(rest) ==
    IF rest = <<>> THEN <<>>
    ELSE rest[Len(rest)] \o PathStackIter_collect(SubSeq(rest, 1, Len(rest) - 1))

\* A wrong iter() that gives the innermost parts first, to see the path
\* properties fail.
PathStack_iter_innermost(stack) ==
    LET rest == PathStack_rest(stack)
    IN  PathStackIter_collect([i \in 1..Len(rest) |-> rest[Len(rest) + 1 - i]])

\* PathStack::iter: what the iterator yields.
PathStack_iter(stack) == PathStackIter_collect(PathStack_rest(stack))

\* PathStack::len.
RECURSIVE PathStack_len(_)
PathStack_len(stack) ==
    Len(stack.parts)
        + (IF stack.parent = <<>> THEN 0 ELSE PathStack_len(stack.parent[1]))

\* PathStack::contains.
PathStack_contains(stack, keyword) ==
    LET items == PathStack_iter(stack)
    IN  \E i \in 1..Len(items) : items[i] = keyword

\* self.tree.add_entry / add_var / add_proc, which answer Ok: the call is
\* kept with new_stack.iter() collected and new_stack.len().
tree_add(p, call, location, stack, extra) ==
    [p EXCEPT !.tree = Append(@, [call |-> call, location |-> location,
                                  path |-> PathStack_iter(stack),
                                  len |-> PathStack_len(stack),
                                  extra |-> extra])]

\* TTKind::from_token: <<>> or <<kind>>.
TTKind_from_token(tok) ==
    IF tok = TokPunct("LParen") THEN <<"Paren">>
    ELSE IF tok = TokPunct("LBrace") THEN <<"Brace">>
    ELSE IF tok = TokPunct("LBracket") THEN <<"Bracket">>
    ELSE <<>>

\* A wrong is_end that lets any closing token end a group, to see the
\* token-tree properties fail.
TTKind_is_end_any(kind, tok) ==
    tok \in {TokPunct("RParen"), TokPunct("RBrace"), TokPunct("RBracket")}

\* TTKind::is_end.
TTKind_is_end(kind, tok) ==
    \/ kind = "Paren" /\ tok = TokPunct("RParen")
    \/ kind = "Brace" /\ tok = TokPunct("RBrace")
    \/ kind = "Bracket" /\ tok = TokPunct("RBracket")

\* Parser::read_any_tt: v is target after the call.
read_any_tt_loop(p, kind, target) ==
    Try(Parser("Parser_next", <<p, Lbl("anything")>>), LAMBDA n :
        IF Parser("TTKind_is_end", <<kind, n.v>>)
        THEN success(n.p, Append(target, [location |-> n.p.location, token |-> n.v]))
        ELSE Require(Parser("read_any_tt", <<Parser_put_back(n.p, n.v), target>>), LAMBDA r :
                 Parser("read_any_tt_loop", <<r.p, kind, r.v>>)))

read_any_tt(p, target) ==
    Try(Parser("Parser_next", <<p, Lbl("anything")>>), LAMBDA n :
        LET kind == Parser("TTKind_from_token", <<n.v>>)
            t1   == Append(target, [location |-> n.p.location, token |-> n.v])
        IN  IF kind = <<>> THEN success(n.p, t1)
            ELSE Parser("read_any_tt_loop", <<n.p, kind[1], t1>>))

\* The loop of the procedure arm of tree_entry that fills body_tt.
body_tt_loop(p, body_tt) ==
    IF /\ body_tt[1].token # TokPunct("LBrace")
       /\ body_tt[Len(body_tt)].token # TokPunct("Semicolon")
    THEN Require(Parser("read_any_tt", <<p, body_tt>>), LAMBDA r : Parser("body_tt_loop", <<r.p, r.v>>))
    ELSE success(p, body_tt)

\* The #[cfg(debug_assertions)] match on the result of the sub-parser.
report_body(p, result, start) ==
    IF ~p.debug_assertions THEN p
    ELSE IF result.st = "Some" THEN annotate(p)
    ELSE Parser_register(p, [result.v EXCEPT !.severity = "Hint"])

\* What a procedure body must leave alone in the outer parser, and the two
\* counters.
Outer(p) ==
    [tree |-> p.tree, unread |-> Unread(p),
     procs_good |-> p.procs_good, procs_bad |-> p.procs_bad]

\* A wrong procedure arm that parses the body with the outer parser, to see
\* the isolation of the body fail.
proc_body_inline(p, body_tt, start) ==
    LET result == require(Parser("block", <<p>>))
        ok     == result.st = "Some"
        p1 == [result.p EXCEPT !.procs_good = IF ok THEN @ + 1 ELSE @,
                               !.procs_bad = IF ok THEN @ ELSE @ + 1]
    IN  SUCCESS([p1 EXCEPT !.bodies = Append(@, [tt |-> body_tt, ok |-> ok,
                                                 before |-> Outer(p),
                                                 after |-> Outer(p1)])])

\* The sub-parser of the procedure arm of tree_entry and what follows it.
proc_body(p, body_tt, start) ==
    LET subparser == Parser_new(body_tt, p.debug_assertions, p.errors)
        result    == require(Parser("block", <<subparser>>))
        ok        == result.st = "Some"
        p1 == [p EXCEPT !.errors = result.p.errors,
                        !.panicked = @ \/ result.p.panicked,
                        !.put_back_twice = @ \/ result.p.put_back_twice,
                        !.slot_stale = @ \/ result.p.slot_stale,
                        !.messages = @ \o result.p.messages,
                        !.procs_good = IF ok THEN @ + 1 ELSE @,
                        !.procs_bad = IF ok THEN @ ELSE @ + 1]
        p2 == Parser("report_body", <<p1, result, start>>)
    IN  SUCCESS([p2 EXCEPT !.bodies = Append(@, [tt |-> body_tt, ok |-> ok,
                                                 before |-> Outer(p),
                                                 after |-> Outer(p2)])])

\* Parser::tree_entry.
tree_entry(p, parent) ==
    LET p0 == updated_location(p)
        entry_start == p0.location
    IN  Leading(Parser("tree_path", <<p0>>), LAMBDA t :
        LET absolute  == t.v.absolute
            path      == t.v.parts
            p1 == IF absolute /\ parent.parent # <<>>
                  THEN Parser_register(t.p,
                           Parser_warning(t.p, "nested absolute path"))
                  ELSE t.p
            new_stack == PathStack(IF absolute THEN <<>> ELSE <<parent>>, path)
        IN  Require(Parser("var_annotations", <<p1>>), LAMBDA a :
            Try(Parser("Parser_next", <<a.p, Lbl("contents")>>), LAMBDA n :
                IF n.v = TokPunct("LBrace")
                THEN LET p2 == tree_add(n.p, "add_entry", n.p.location, new_stack, <<>>)
                         p3 == updated_location(Parser_put_back(p2, n.v))
                     IN  Require(Parser("tree_block", <<p3, new_stack>>), LAMBDA b :
                             SUCCESS(annotate(b.p)))
                ELSE IF n.v = TokPunct("Assign")
                THEN LET location == n.p.location
                     IN  Require(Parser("expression", <<n.p>>), LAMBDA e :
                         Require(Parser("input_specifier", <<e.p>>), LAMBDA i :
                         Require(Parser("exact", <<i.p, TokPunct("Semicolon")>>), LAMBDA s :
                             SUCCESS(annotate(tree_add(s.p, "add_var", location,
                                                       new_stack, e.v))))))
                ELSE IF n.v = TokPunct("LParen")
                THEN LET location == n.p.location
                     IN  Require(Parser("separated", <<n.p, "Comma", "RParen", <<>>, "proc_parameter">>),
                                 LAMBDA ps :
                         LET p2 == annotate(tree_add(ps.p, "add_proc", location,
                                                     new_stack, ps.v))
                             p3 == updated_location(p2)
                             start == p3.location
                         IN  Require(Parser("read_any_tt", <<p3, <<>>>>), LAMBDA r :
                             Require(Parser("body_tt_loop", <<r.p, r.v>>), LAMBDA body :
                                 Parser("proc_body", <<annotate(body.p), body.v, start>>))))
                ELSE LET p2 == tree_add(n.p, "add_entry", n.p.location, new_stack, <<>>)
                         p3 == Parser_put_back(p2, n.v)
                     IN  SUCCESS(IF PathStack_contains(new_stack, Bytes(<<"v", "a", "r">>))
                                 THEN annotate(p3) ELSE p3))))

\* Parser::tree_entries.
tree_entries(p, parent, terminator) ==
    LET message == IF terminator = EofToken THEN Lbl("newline")
                   ELSE Lbl("newline, terminator")
    IN  Try(Parser("Parser_next", <<p, message>>), LAMBDA n :
            IF n.v = terminator \/ n.v = EofToken THEN SUCCESS(n.p)
            ELSE IF n.v = TokPunct("Semicolon") THEN Parser("tree_entries", <<n.p, parent, terminator>>)
            ELSE Require(Parser("tree_entry", <<Parser_put_back(n.p, n.v), parent>>), LAMBDA e :
                     Parser("tree_entries", <<e.p, parent, terminator>>)))

\* Parser::tree_block.
tree_block(p, parent) ==
    Leading(Parser("exact", <<p, TokPunct("LBrace")>>), LAMBDA l :
    Require(Parser("tree_entries", <<l.p, parent, TokPunct("RBrace")>>), LAMBDA e : SUCCESS(e.p)))

\* Parser::root.
root(p) == Parser("tree_entries", <<p, PathStack(<<>>, <<>>), EofToken>>)

\* Parser::run: the parser after it.
Parser_run(p) ==
    LET r == require(root(p))
    IN  IF r.st = "Err" THEN Parser_register(r.p, r.v) ELSE r.p

\* A wrong parse() for which any diagnostic makes the tree sloppy, to see
\* the severity property fail.
parse_finish_any(p) ==
    [procs_total |-> p.procs_good + p.procs_bad,
     percent |-> <<>>,
     sloppy |-> p.errors # <<>>,
     tree |-> p.tree]

\* parse() after run(): what it prints and what it gives to finalize.
parse_finish(p) ==
    LET procs_total == p.procs_good + p.procs_bad
    IN  [procs_total |-> procs_total,
         percent |-> IF procs_total > 0 THEN <<(p.procs_good * 100) \div procs_total>>
                     ELSE <<>>,
         sloppy |-> \E i \in 1..Len(p.errors) : p.errors[i].severity = "Error",
         tree |-> p.tree]

(***************************************************************************)
(* Parser(f, a): the function f of parser.rs applied to the arguments a.   *)
(***************************************************************************)
Parser(f, a) ==
    CASE f = "Parser_next" -> Parser_next(a[1], a[2])
      [] f = "exact" -> exact(a[1], a[2])
      [] f = "ident" -> ident(a[1])
      [] f = "exact_ident" -> exact_ident(a[1], a[2])
      [] f = "group" -> group(a[1])
      [] f = "term" -> term(a[1])
      [] f = "expression_part" -> expression_part(a[1], a[2], a[3])
      [] f = "expression" -> expression(a[1])
      [] f = "describe_parse_error" -> describe_parse_error(a[1])
      [] f = "strength_cmp" -> strength_cmp(a[1], a[2])
      [] f = "find_op" -> find_op(a[1])
      [] f = "fold_right" -> fold_right(a[1], a[2], a[3])
      [] f = "fold_left" -> fold_left(a[1], a[2], a[3], a[4])
      [] f = "fold" -> fold(a[1], a[2], a[3], a[4])
      [] f = "expression_ternary" -> expression_ternary(a[1], a[2])
      [] f = "expression_loop" -> expression_loop(a[1], a[2])
      [] f = "expression_part_loop" -> expression_part_loop(a[1], a[2], a[3], a[4], a[5])
      [] f = "group_follow" -> group_follow(a[1], a[2], a[3], a[4])
      [] f = "group_unary" -> group_unary(a[1], a[2])
      [] f = "path_separator" -> path_separator(a[1])
      [] f = "prefab_loop" -> prefab_loop(a[1], a[2])
      [] f = "prefab" -> prefab(a[1])
      [] f = "prefab_var" -> prefab_var(a[1])
      [] f = "follow_index" -> follow_index(a[1], a[2])
      [] f = "follow" -> follow(a[1])
      [] f = "arguments" -> arguments(a[1])
      [] f = "separated_loop" -> separated_loop(a[1], a[2], a[3], a[4], a[5], a[6], a[7])
      [] f = "separated" -> separated(a[1], a[2], a[3], a[4], a[5])
      [] f = "input_type_add" -> input_type_add(a[1], a[2], a[3])
      [] f = "input_type_loop" -> input_type_loop(a[1], a[2])
      [] f = "input_specifier" -> input_specifier(a[1])
      [] f = "case" -> case(a[1])
      [] f = "ignore_group_loop" -> ignore_group_loop(a[1], a[2], a[3], a[4])
      [] f = "var_annotations" -> var_annotations(a[1])
      [] f = "tree_path_loop" -> tree_path_loop(a[1], a[2], a[3])
      [] f = "tree_path" -> tree_path(a[1])
      [] f = "proc_parameter" -> proc_parameter(a[1])
      [] f = "term_interp" -> term_interp(a[1], a[2], a[3])
      [] f = "term_new" -> term_new(a[1])
      [] f = "term_ident" -> term_ident(a[1], a[2])
      [] f = "is_tmp" -> is_tmp(a[1])
      [] f = "comma_or_semicolon" -> comma_or_semicolon(a[1])
      [] f = "simple_statement_var" -> simple_statement_var(a[1], a[2])
      [] f = "simple_statement" -> simple_statement(a[1], a[2])
      [] f = "condition" -> condition(a[1])
      [] f = "for_range" -> for_range(a[1], a[2], a[3], a[4])
      [] f = "statement_if_loop" -> statement_if_loop(a[1], a[2])
      [] f = "statement_for_list" -> statement_for_list(a[1], a[2], a[3])
      [] f = "statement_for" -> statement_for(a[1])
      [] f = "statement_spawn" -> statement_spawn(a[1])
      [] f = "statement_switch_loop" -> statement_switch_loop(a[1], a[2], a[3])
      [] f = "statement_set" -> statement_set(a[1])
      [] f = "statement" -> statement(a[1])
      [] f = "block_loop" -> block_loop(a[1], a[2])
      [] f = "block" -> block(a[1])
      [] f = "TTKind_from_token" -> TTKind_from_token(a[1])
      [] f = "TTKind_is_end" -> TTKind_is_end(a[1], a[2])
      [] f = "read_any_tt_loop" -> read_any_tt_loop(a[1], a[2], a[3])
      [] f = "read_any_tt" -> read_any_tt(a[1], a[2])
      [] f = "body_tt_loop" -> body_tt_loop(a[1], a[2])
      [] f = "report_body" -> report_body(a[1], a[2], a[3])
      [] f = "proc_body" -> proc_body(a[1], a[2], a[3])
      [] f = "tree_entry" -> tree_entry(a[1], a[2])
      [] f = "tree_entries" -> tree_entries(a[1], a[2], a[3])
      [] f = "tree_block" -> tree_block(a[1], a[2])
      [] f = "Parser_run" -> Parser_run(a[1])

(***************************************************************************)
(* The parser as a state machine: px is the Parser, ppc the position of    *)
(* its caller, pres what the caller holds.  The lexer variables are idle.  *)
(***************************************************************************)
LexerIdle == lx = <<>> /\ toks = <<>> /\ ldone = FALSE

\* The tokens of `words` (a sequence of token sequences) as the lexer would
\* locate them: word k on line k, its i-th token in column i.
RECURSIVE Located(_, _)
Located(words, k) ==
    IF k > Len(words) THEN <<>>
    ELSE [i \in 1..Len(words[k]) |->
             [location |-> Location(k, i), token |-> words[k][i]]]
         \o Located(words, k + 1)

InitParser(inputs, builds) ==
    /\ LexerIdle
    /\ px \in {Parser_new(i, d, <<>>) : i \in inputs, d \in builds}
    /\ ppc = "new"
    /\ pres = <<>>

Id(c) == TokIdent(Bytes(<<c>>), FALSE)

(***************************************************************************)
(* SpecExpr: expression() over `operand (op operand)*`.                    *)
(***************************************************************************)
MaxOps == 3

\* One operator of every strength, and a second of Add and Assign.
ExprOps ==
    {"Pow", "Mul", "Add", "Sub", "Less", "LShift", "Eq", "BitAnd", "And", "Or",
     "Assign", "AddAssign", "In"}

\* The i-th operand: the integer i, or the i-th letter.
OperandToken(kind, i) ==
    IF kind = "int" THEN TokInt(i) ELSE TokIdent(<<B("a") + i - 1>>, FALSE)

OperandTree(kind, i) ==
    IF kind = "int" THEN Base(<<>>, [t |-> "Int", v |-> i], <<>>)
    ELSE Base(<<>>, [t |-> "Ident", v |-> <<B("a") + i - 1>>], <<>>)

ExprWord(kind, ops) ==
    [i \in 1..(2 * Len(ops) + 1) |->
        IF i % 2 = 1 THEN OperandToken(kind, (i + 1) \div 2)
        ELSE TokPunct(ops[i \div 2])]

\* `1 + 2 * 3` and `a = b = c`.
ExampleAddMul == Located(<<ExprWord("int", <<"Add", "Mul">>)>>, 1)

ExampleAssign == Located(<<ExprWord("ident", <<"Assign", "Assign">>)>>, 1)

ExprInputs ==
    {Located(<<ExprWord("ident", ops)>>, 1) : ops \in Words({<<o>> : o \in ExprOps}, MaxOps)}
    \cup {ExampleAddMul, ExampleAssign}

\* let e = parser.expression();
ExprParse ==
    /\ ppc = "new"
    /\ \E r \in {Parser("expression", <<px>>)} :
           /\ px' = r.p
           /\ pres' = [st |-> r.st, v |-> r.v, rest |-> <<>>]
    /\ ppc' = "parsed"
    /\ UNCHANGED <<lx, toks, ldone>>

\* The token the parser gives after the expression.
ExprRest ==
    /\ ppc = "parsed"
    /\ \E n \in {Parser("Parser_next", <<px, Lbl("")>>)} :
           /\ px' = n.p
           /\ pres' = [pres EXCEPT !.rest = <<n.v>>]
    /\ ppc' = "end"
    /\ UNCHANGED <<lx, toks, ldone>>

NextExpr == ExprParse \/ ExprRest

\* No procedure body is parsed: the build makes no difference.
SpecExpr == InitParser(ExprInputs, {FALSE}) /\ [][NextExpr]_vars

\* The operators and operands of the input, from its tokens.
InputOps == [i \in 1..(Len(px.input) \div 2) |-> Parser("find_op", <<px.input[2 * i].token>>)[1]]

InputOperands ==
    [i \in 1..((Len(px.input) + 1) \div 2) |->
        LET t == px.input[2 * i - 1].token
        IN  OperandTree(IF t.kind = "Int" THEN "int" ELSE "ident", i)]

Rank(strength) == CHOOSE i \in 1..Len(Strength) : Strength[i] = strength

\* The tree the strengths determine: split at the weakest operator, the
\* leftmost of them in the Assign group and the rightmost in any other.
RECURSIVE ExpectedTree(_, _)
ExpectedTree(operands, ops) ==
    IF ops = <<>> THEN operands[1]
    ELSE LET n == Len(ops)
             weakest == CHOOSE r \in {Rank(ops[i].strength) : i \in 1..n} :
                            \A i \in 1..n : Rank(ops[i].strength) <= r
             at == {i \in 1..n : Rank(ops[i].strength) = weakest}
             k == IF Strength[weakest] = "Assign"
                  THEN CHOOSE i \in at : \A j \in at : i <= j
                  ELSE CHOOSE i \in at : \A j \in at : i >= j
         IN  build(ops[k].oper,
                   ExpectedTree(SubSeq(operands, 1, k), SubSeq(ops, 1, k - 1)),
                   ExpectedTree(SubSeq(operands, k + 1, n + 1), SubSeq(ops, k + 1, n)))

Bin(op, lhs, rhs) == [e |-> "BinaryOp", op |-> op, lhs |-> lhs, rhs |-> rhs]

Asg(op, lhs, rhs) == [e |-> "AssignOp", op |-> op, lhs |-> lhs, rhs |-> rhs]

\* C1: over `operand (op operand)*`, expression() succeeds, reads the whole
\* input, and returns the tree in which an earlier strength binds tighter,
\* equal strengths combine left to right and the Assign group right to left;
\* `1 + 2 * 3` is Add(1, Mul(2, 3)) and `a = b = c` is Assign(a, Assign(b, c)).
C1_Precedence ==
    /\ ppc \in {"parsed", "end"} =>
          /\ pres.st = "Some"
          /\ pres.v = ExpectedTree(InputOperands, InputOps)
          /\ px.input = ExampleAddMul =>
                pres.v = Bin("Add", OperandTree("int", 1),
                             Bin("Mul", OperandTree("int", 2), OperandTree("int", 3)))
          /\ px.input = ExampleAssign =>
                pres.v = Asg("Assign", OperandTree("ident", 1),
                             Asg("Assign", OperandTree("ident", 2),
                                 OperandTree("ident", 3)))
    /\ ppc = "end" => pres.rest = <<EofToken>>

\* `a = b += c * d` has been parsed to Assign(a, AddAssign(b, Mul(c, d))).
C1_Witness ==
    /\ ppc = "end"
    /\ px.input = Located(<<ExprWord("ident", <<"Assign", "AddAssign", "Mul">>)>>, 1)
    /\ pres.v = Asg("Assign", OperandTree("ident", 1),
                    Asg("AddAssign", OperandTree("ident", 2),
                        Bin("Mul", OperandTree("ident", 3), OperandTree("ident", 4))))


(***************************************************************************)
(* SpecTree: run() and the rest of parse() over a sequence of object-tree  *)
(* entries, one entry per line, in a build with or without debug           *)
(* assertions.                                                             *)
(***************************************************************************)
MaxEntries == 3

\* `a ;`  `b = 1 ;`  `c { d ; }`
EntryPlain == <<Id("a"), TokPunct("Semicolon")>>

EntryVar == <<Id("b"), TokPunct("Assign"), TokInt(1), TokPunct("Semicolon")>>

EntryBlock ==
    <<Id("c"), TokPunct("LBrace"), Id("d"), TokPunct("Semicolon"), TokPunct("RBrace")>>

\* `e = ;`: an entry with a syntax error.
EntryBad == <<Id("e"), TokPunct("Assign"), TokPunct("Semicolon")>>

\* The procedure `name ( ) body`.
Proc(name, body) == <<Id(name), TokPunct("LParen"), TokPunct("RParen")>> \o body

\* `p ( ) { x = 1 ; }`
ProcGood ==
    Proc("p", <<TokPunct("LBrace"), Id("x"), TokPunct("Assign"), TokInt(1),
                TokPunct("Semicolon"), TokPunct("RBrace")>>)

\* `q ( ) { x }`: the statement of the body has no end.
ProcBadStatement == Proc("q", <<TokPunct("LBrace"), Id("x"), TokPunct("RBrace")>>)

\* `r ( ) { x ( }`: the call in the body is not closed.
ProcBadGroup ==
    Proc("r", <<TokPunct("LBrace"), Id("x"), TokPunct("LParen"), TokPunct("RBrace")>>)

ValidEntries == {EntryPlain, EntryVar, EntryBlock}

BadProcs == {ProcBadStatement, ProcBadGroup}

Entries == ValidEntries \cup {EntryBad, ProcGood} \cup BadProcs

RECURSIVE EntryLists(_)
EntryLists(n) ==
    IF n = 0 THEN {<<>>}
    ELSE LET W == EntryLists(n - 1)
         IN  W \cup {Append(w, e) : w \in W, e \in Entries}

TreeInputs == {Located(words, 1) : words \in EntryLists(MaxEntries)}

\* parser.run();
ParseRun ==
    /\ ppc = "new"
    /\ px' = Parser("Parser_run", <<px>>)
    /\ ppc' = "ran"
    /\ UNCHANGED <<lx, toks, ldone, pres>>

\* The rest of parse().
ParseFinish ==
    /\ ppc = "ran"
    /\ ~px.panicked
    /\ pres' = parse_finish(px)
    /\ ppc' = "done"
    /\ UNCHANGED <<lx, toks, ldone, px>>

NextTree == ParseRun \/ ParseFinish

SpecTree == InitParser(TreeInputs, BOOLEAN) /\ [][NextTree]_vars

\* The lines of the input and the entry on line k.
Lines == {px.input[i].location.line : i \in 1..Len(px.input)}

Line(k) ==
    LET on == SelectSeq(px.input, LAMBDA t : t.location.line = k)
    IN  [i \in 1..Len(on) |-> on[i].token]

\* A call to the tree builder was made for the entry on line k.
Added(call, k) ==
    \E i \in 1..Len(px.tree) : px.tree[i].call = call /\ px.tree[i].location.line = k

\* A diagnostic of the severity is recorded on line k from column c on.
Recorded(severity, k, c) ==
    \E i \in 1..Len(px.errors) :
        /\ px.errors[i].severity = severity
        /\ px.errors[i].loc.line = k
        /\ px.errors[i].loc.column >= c

\* C2: when every entry is valid and the body of the k-th procedure is
\* malformed, after run() every procedure has been registered with add_proc,
\* procs_bad >= 1, and a Hint located inside the k-th body is recorded.
C2_ProcBodyIsolation ==
    (/\ ppc = "done"
     /\ \A k \in Lines : Line(k) # EntryBad
     /\ \E k \in Lines : Line(k) \in BadProcs)
    => /\ \A k \in Lines : Line(k) \in BadProcs \cup {ProcGood} => Added("add_proc", k)
       /\ px.procs_bad >= 1
       /\ \A k \in Lines : Line(k) \in BadProcs => Recorded("Hint", k, 4)

\* C3: a syntax error in one entry is registered and the valid entries after
\* it are still added to the object tree.
C3_ErrorRecovery ==
    ppc = "done" =>
        \A j, k \in Lines :
            (j < k /\ Line(j) = EntryBad /\ Line(k) \in ValidEntries)
            => /\ Recorded("Error", j, 1)
               /\ \E i \in 1..Len(px.tree) : px.tree[i].location.line = k


(***************************************************************************)
(* SpecLine: the lexer over directive lines that end in a newline, a       *)
(* backslash continuation or a line comment.                               *)
(***************************************************************************)
MaxLineLen == 4

LineAlphabet ==
    {Bytes(<<"#">>), Bytes(<<"#", "a">>), Bytes(<<"#", "w", "a", "r", "n">>),
     Bytes(<<"a">>), Bytes(<<" ">>), Bytes(<<"\n">>), Bytes(<<"\\">>),
     Bytes(<<"/", "/">>)}

LineInputs == Words(LineAlphabet, MaxLineLen)

SpecLine == InitLexer(LineInputs) /\ [][NextLex]_vars

\* Token k of ts is the first token of its physical line: it has source text
\* and no token before it starts on the same line.
FirstOnLine(input, ts, k) ==
    /\ ts[k].start > 0
    /\ \A j \in 1..(k - 1) :
           ts[j].start > 0 =>
               LineOf(input, ts[j].start) # LineOf(input, ts[k].start)

\* Token k of ts is on a directive line: the line's first token is a `#` that
\* set the Hash state, its second an identifier other than warn and error,
\* and token k starts later on the same line.
OnOrdinaryLine(input, ts, k) ==
    /\ k >= 3
    /\ ts[k].start > 0
    /\ \E i \in 1..(k - 2) :
           /\ FirstOnLine(input, ts, i)
           /\ ts[i].token = TokPunct("Hash")
           /\ ts[i + 1].token.kind = "Ident"
           /\ ~IsWarnOrError(ts[i + 1])
           /\ LineOf(input, ts[i].start) = LineOf(input, ts[i + 1].start)
           /\ LineOf(input, ts[i].start) = LineOf(input, ts[k].start)

\* C11, the steps: a call of next() that returns the first token of a physical
\* line found the directive state None when skip_ws gave it the token's first
\* byte; a call that returns a later token of a `#` identifier line found the
\* state Ordinary, so no read ahead of the line's end has reset it.
C11_Step ==
    Emitted =>
        /\ FirstOnLine(lx.input, toks', Len(toks')) => lx'.seen = "None"
        /\ OnOrdinaryLine(lx.input, toks', Len(toks')) => lx'.seen = "Ordinary"

\* C11: the directive state is None whenever the lexer starts on the first
\* token of a physical line, whatever consumed the newline before it (a
\* Newline token, a backslash continuation, a line comment), and the state of
\* a directive line lasts to the end of that line.
C11_DirectiveNonePerLine == [][C11_Step]_vars

\* C11 happens: after `#a` on the first line, whose newline a backslash
\* continuation or a line comment consumed, the first token of the second line
\* has just been returned, and the state found for it was None.
C11_Witness ==
    /\ ~ldone
    /\ Len(toks) >= 3
    /\ toks[1].token = TokPunct("Hash")
    /\ toks[2].token.kind = "Ident"
    /\ \E i \in 1..Len(lx.input) :
           /\ lx.input[i] = B("\n")
           /\ i > 1
           /\ lx.input[i - 1] \in {B("\\"), B("/")}
    /\ FirstOnLine(lx.input, toks, Len(toks))
    /\ LineOf(lx.input, toks[Len(toks)].start) = 2
    /\ toks[Len(toks)].token.kind = "Ident"
    /\ lx.seen = "None"

(***************************************************************************)
(* SpecEof: the lexer run to the end of short inputs, whose items are      *)
(* bytes or I/O errors of the underlying reader.                           *)
(***************************************************************************)
MaxEofLen == 3

EofAlphabet == LexAlphabet \cup {Bytes(<<"/", "/">>), <<IoErr>>}

EofInputs == Words(EofAlphabet, MaxEofLen)

SpecEof == InitLexer(EofInputs) /\ [][NextLex]_vars

\* The value of one call of next() on the lexer l, as a one-element set.  It
\* is the set {Lexer_iter_next(l)}, obtained through BagOfAll so that TLC
\* computes the call by value also where it evaluates ENABLED.
CallOf(l) == BagToSet(BagOfAll(LAMBDA x : Lexer_iter_next(x), SetToBag({l})))

\* A call of next(), whatever it returns: LexToken or LexNone.
LexCall ==
    /\ ~lx.panicked
    /\ \E r \in CallOf(lx) :
           /\ lx' = r.l
           /\ toks' = IF r.out # <<>> THEN Append(toks, r.out[1]) ELSE toks
           /\ ldone' = (ldone \/ r.out = <<>>)
    /\ UNCHANGED <<px, ppc, pres>>

\* The caller of the lexer (the parser, or a loop over the iterator) calls
\* next() again as long as a call changes anything.
SpecEofFair == SpecEof /\ WF_vars(LexCall)

\* The token is the Newline that next() makes up at the end: it has no source
\* text.
Synthetic(t) == t.start = 0

\* One column past the position of the tracker when every byte of the input
\* has been read: the place where one more byte would be.  An I/O error is
\* no byte and moves no position.
EndLocation(input) ==
    LET bytes == SelectSeq(input, LAMBDA x : ~IsIoErr(x))
    IN  Location(LineOf(bytes, Len(bytes) + 1), ColumnOf(bytes, Len(bytes) + 1))

\* The end of the token stream is as stated: a synthetic Newline is the last
\* token returned, it is located one column past the end of the input, and
\* None is returned only after it.
EndsWithOneNewline ==
    /\ \A i \in 1..Len(toks) :
           Synthetic(toks[i]) =>
               /\ i = Len(toks)
               /\ toks[i].token = TokPunct("Newline")
               /\ toks[i].location = EndLocation(lx.input)
    /\ ldone => (Len(toks) > 0 /\ Synthetic(toks[Len(toks)]))

HasIoError(input) == \E i \in 1..Len(input) : IsIoErr(input[i])

\* C12: once the byte stream is exhausted the lexer returns exactly one
\* synthetic Newline, located one column past the last tracked position, and
\* None on every later call, whether or not the input ended with a newline.
C12_FinalNewline == EndsWithOneNewline

\* The same for the streams that give no I/O error.
C12_WithoutIoError == ~HasIoError(lx.input) => EndsWithOneNewline

\* What is left for the lexer to consume: the items the iterator has not
\* given yet and the byte held in `next`.
Remaining(l) == (Len(l.input) - l.pos) + (IF l.next # <<>> THEN 1 ELSE 0)

\* C13, the steps: a call of next() that returns a token other than the
\* synthetic final Newline leaves less to consume than it found; the other
\* calls return the final Newline or None.
C13_Step ==
    /\ Emitted => (Synthetic(Last) \/ Remaining(lx') < Remaining(lx))
    /\ ~Emitted => ldone'

\* C13: every call of next() consumes at least one byte of the input or
\* returns a terminal value, and so the lexer called again and again returns
\* None after finitely many tokens.
C13_Progress == [][C13_Step]_vars /\ <>ldone

\* C13 happens: None has been returned after three tokens or more, one of
\* which began with the byte its predecessor had read ahead and put back.
C13_Witness ==
    /\ ldone
    /\ Len(toks) >= 3
    /\ Remaining(lx) = 0
    /\ \E i \in 2..Len(toks) :
           /\ toks[i - 1].punct = "Less"
           /\ toks[i].start = toks[i - 1].start + 1

(***************************************************************************)
(* SpecCall: one parse method called on a fresh parser over a short token  *)
(* stream, and the token read after the call.  A nested call of a method   *)
(* sees what a first call sees on the rest of the stream.                  *)
(***************************************************************************)
MaxCallLen == 3

CallAlphabet ==
    {Id("a"), TokInt(1), TokPunct("Slash"), TokPunct("Dot"), TokPunct("LParen"),
     TokPunct("RParen"), TokPunct("Sub"), TokPunct("LBracket"), TokPunct("Semicolon")}

\* `a * a + a ;`: the `+` is read and put back by expression_part.
ExampleMulAdd ==
    <<Id("a"), TokPunct("Mul"), Id("a"), TokPunct("Add"), Id("a"), TokPunct("Semicolon")>>

\* `a [ 1 ] ;`: var_annotations reads the `[` and puts it back.
ExampleAnnotated ==
    <<Id("a"), TokPunct("LBracket"), TokInt(1), TokPunct("RBracket"), TokPunct("Semicolon")>>

CallInputs ==
    {Located(<<w>>, 1) : w \in Words({<<t>> : t \in CallAlphabet}, MaxCallLen)}
    \cup {Located(words, 1) : words \in EntryLists(2)}
    \cup {Located(<<ExampleMulAdd>>, 1), Located(<<ExampleAnnotated>>, 1)}

\* The parse methods and the arguments they are called with beside the parser.
Methods ==
    {[f |-> "exact", args |-> <<TokPunct("LParen")>>],
     [f |-> "exact", args |-> <<EofToken>>],
     [f |-> "ident", args |-> <<>>],
     [f |-> "exact_ident", args |-> <<Bytes(<<"a">>)>>],
     [f |-> "exact_ident", args |-> <<Bytes(<<"v", "a", "r">>)>>],
     [f |-> "tree_path", args |-> <<>>],
     [f |-> "tree_entry", args |-> <<PathStack(<<>>, <<>>)>>],
     [f |-> "proc_parameter", args |-> <<>>],
     [f |-> "tree_entries", args |-> <<PathStack(<<>>, <<>>), EofToken>>],
     [f |-> "tree_block", args |-> <<PathStack(<<>>, <<>>)>>],
     [f |-> "var_annotations", args |-> <<>>],
     [f |-> "input_specifier", args |-> <<>>],
     [f |-> "input_type", args |-> <<>>],
     [f |-> "block", args |-> <<>>],
     [f |-> "statement", args |-> <<>>],
     [f |-> "simple_statement", args |-> <<FALSE>>],
     [f |-> "simple_statement", args |-> <<TRUE>>],
     [f |-> "comma_or_semicolon", args |-> <<>>],
     [f |-> "case", args |-> <<>>],
     [f |-> "path_separator", args |-> <<>>],
     [f |-> "prefab", args |-> <<>>],
     [f |-> "expression", args |-> <<>>],
     [f |-> "group", args |-> <<>>],
     [f |-> "term", args |-> <<>>],
     [f |-> "follow", args |-> <<>>],
     [f |-> "arguments", args |-> <<>>],
     [f |-> "separated", args |-> <<"Comma", "RParen", <<>>, "expression">>],
     [f |-> "read_any_tt", args |-> <<<<>>>>],
     [f |-> "ignore_group", args |-> <<"LBracket", "RBracket">>]}

\* The method m called on the parser p.
MethodCall(m, p) ==
    IF m.f = "input_type" THEN input_type(p)
    ELSE IF m.f = "ignore_group" THEN ignore_group(p, m.args[1], m.args[2])
    ELSE Parser(m.f, <<p>> \o m.args)

\* let r = parser.method(...);
Call ==
    /\ ppc = "new"
    /\ \E m \in Methods :
           \E r \in {MethodCall(m, px)} :
               /\ px' = r.p
               /\ pres' = [method |-> m.f, st |-> r.st, rest |-> <<>>]
    /\ ppc' = "called"
    /\ UNCHANGED <<lx, toks, ldone>>

\* The token the parser gives after the call.
Reread ==
    /\ ppc = "called"
    /\ ~px.panicked
    /\ \E n \in {Parser("Parser_next", <<px, Lbl("")>>)} :
           /\ px' = n.p
           /\ pres' = [pres EXCEPT !.rest = <<n.v>>]
    /\ ppc' = "end"
    /\ UNCHANGED <<lx, toks, ldone>>

NextCall == Call \/ Reread

SpecCall == InitParser(CallInputs, {TRUE}) /\ [][NextCall]_vars

\* C14, the call: a method that returns Ok(None) leaves unread exactly the
\* tokens that were unread before it.
C14_Call ==
    (ppc = "new" /\ ppc' = "called" /\ pres'.st = "None") => Unread(px') = Unread(px)

\* C14, the next token: after a method has returned Ok(None), the token the
\* parser reads is the first token of the input, which it would have read
\* before the call.
C14_Reread ==
    (ppc = "called" /\ ppc' = "end" /\ pres.st = "None") =>
        pres'.rest = <<Unread(Parser_new(px.input, TRUE, <<>>))[1]>>

\* C14: a parse method that returns `not present` (Ok(None)) has consumed no
\* token: the next token read after the call is the token that would have
\* been read before it.
C14_NoneConsumesNothing == [][C14_Call /\ C14_Reread]_vars

\* C14 happens: group() has read past a token, found no term, and returned
\* Ok(None); the token read next is the first of a stream of three.
C14_Witness ==
    /\ ppc = "end"
    /\ pres.method = "group"
    /\ pres.st = "None"
    /\ Len(px.input) = 3
    /\ pres.rest = <<px.input[1].token>>

\* The slot of the parser p holds nothing, or the item last pulled from the
\* input, and the parser's location is that item's.
SlotIsLastPulled(p) ==
    p.next # <<>> =>
        /\ p.pulled = <<[location |-> p.location, token |-> p.next[1]]>>
        /\ \/ /\ p.ipos > 0
              /\ p.pulled[1] = p.input[p.ipos]
           \/ /\ p.ipos = Len(p.input)
              /\ p.eof
              /\ p.next[1] = EofToken

\* C15: the lookahead slot holds at most one token: put_back is never called
\* on a full slot, by the parser or by a sub-parser of a procedure body, and
\* the token in the slot is always the one last pulled from the input (Eof
\* when the input has ended), so that the parser's location is that token's.
C15_OneTokenLookahead ==
    /\ ~px.put_back_twice
    /\ ~px.slot_stale
    /\ SlotIsLastPulled(px)

\* C15 happens: a parser has run over a procedure with a body that parsed,
\* followed by another entry, and a token is in the slot.
C15_Witness ==
    /\ ppc = "called"
    /\ pres.method = "tree_entry"
    /\ px.procs_good = 1
    /\ px.next # <<>>
    /\ px.next[1] # EofToken

\* C16: parsing a procedure body changes neither the object tree nor the
\* tokens the outer parser has still to read, whether the sub-parser succeeds
\* or fails, and adds one to exactly one counter: procs_good when it
\* succeeded, procs_bad when it failed.
C16_BodyFrame ==
    \A i \in 1..Len(px.bodies) :
        LET b == px.bodies[i]
        IN  /\ b.after.tree = b.before.tree
            /\ b.after.unread = b.before.unread
            /\ b.after.procs_good = b.before.procs_good + (IF b.ok THEN 1 ELSE 0)
            /\ b.after.procs_bad = b.before.procs_bad + (IF b.ok THEN 0 ELSE 1)

\* C16 happens: run() has parsed a body that succeeded and a body that
\* failed, each followed by a further entry the outer parser had still to
\* read.
C16_Witness ==
    /\ ppc = "ran"
    /\ \E i, j \in 1..Len(px.bodies) :
           /\ px.bodies[i].ok
           /\ ~px.bodies[j].ok
           /\ Len(px.bodies[i].after.unread) > 1
           /\ Len(px.bodies[j].after.unread) > 1
    /\ px.procs_good = 1
    /\ px.procs_bad = 1

(***************************************************************************)
(* SpecParse: parse() on a context that may already hold a diagnostic of   *)
(* the lexer.                                                              *)
(***************************************************************************)
ContextErrors ==
    {<<>>,
     <<DMError(Location(1, 1), "Warning", "precision loss of integer constant")>>,
     <<DMError(Location(1, 1), "Error", "illegal byte")>>}

InitParse ==
    /\ LexerIdle
    /\ px \in {Parser_new(i, d, e) : i \in TreeInputs, d \in BOOLEAN, e \in ContextErrors}
    /\ ppc = "new"
    /\ pres = <<>>

SpecParse == InitParse /\ [][NextTree]_vars

Severities(errors) == {errors[i].severity : i \in 1..Len(errors)}

\* C17: parse() gives the tree to finalize once, after run() has returned,
\* and sloppy is true exactly when the context then holds a diagnostic of
\* severity Error: warnings and hints alone give sloppy = false.
C17_SloppyIffError ==
    /\ pres # <<>> <=> ppc = "done"
    /\ ppc = "done" =>
           /\ pres.sloppy <=> "Error" \in Severities(px.errors)
           /\ Severities(px.errors) \subseteq {"Warning", "Hint"} => ~pres.sloppy
           /\ pres.tree = px.tree

\* C17 happens: parse() has finished on a context that holds a Warning and
\* the Hint of a failed procedure body and nothing else; sloppy is false.
C17_Witness ==
    /\ ppc = "done"
    /\ px.procs_bad = 1
    /\ Severities(px.errors) = {"Warning", "Hint"}
    /\ ~pres.sloppy


(***************************************************************************)
(* SpecTernary: expression() over `operand (c operand)*` where c is a      *)
(* binary operator, `?` or `:`.                                            *)
(***************************************************************************)
MaxTernOps == 4

TernConnectors == {"Assign", "Add", "QuestionMark", "Colon"}

\* `a = b ? c : d` and `a ? b : c ? d : e`.
ExampleAssignTernary ==
    Located(<<ExprWord("ident", <<"Assign", "QuestionMark", "Colon">>)>>, 1)

ExampleNestedTernary ==
    Located(<<ExprWord("ident", <<"QuestionMark", "Colon", "QuestionMark", "Colon">>)>>, 1)

TernaryInputs ==
    {Located(<<ExprWord("ident", cs)>>, 1) :
        cs \in Words({<<c>> : c \in TernConnectors}, MaxTernOps)}

SpecTernary == InitParser(TernaryInputs, {FALSE}) /\ [][NextExpr]_vars

InputConnectors == [i \in 1..(Len(px.input) \div 2) |-> px.input[2 * i].token]

IsPunct(tok, name) == tok.kind = "Punct" /\ tok.p = name

\* The reading the claim describes, from operand i on: the condition is the
\* whole run of binary operators up to the first `?` or `:`; after a `?` come
\* a branch, a `:` and a branch read the same way.  `end` is the connector
\* that follows what was read.
RECURSIVE RightNested(_, _)
RightNested(conn, i) ==
    LET n == Len(conn)
        stops == {k \in i..n : IsPunct(conn[k], "QuestionMark") \/ IsPunct(conn[k], "Colon")}
        j == IF stops = {} THEN n + 1 ELSE CHOOSE k \in stops : \A m \in stops : k <= m
        cond == ExpectedTree([k \in 1..(j - i + 1) |-> OperandTree("ident", i + k - 1)],
                             [k \in 1..(j - i) |-> find_op(conn[i + k - 1])[1]])
    IN  IF j <= n /\ IsPunct(conn[j], "QuestionMark")
        THEN LET a == RightNested(conn, j + 1)
             IN  IF ~a.ok THEN a
                 ELSE IF a.end <= n /\ IsPunct(conn[a.end], "Colon")
                 THEN LET b == RightNested(conn, a.end + 1)
                      IN  IF ~b.ok THEN b
                          ELSE [ok |-> TRUE, v |-> TernaryOp(cond, a.v, b.v), end |-> b.end]
                 ELSE [ok |-> FALSE, v |-> <<>>, end |-> a.end]
        ELSE [ok |-> TRUE, v |-> cond, end |-> j]

MaxForOps == 1

Keyword(s) == TokIdent(Bytes(s), FALSE)

\* An expression of the header: its tokens and the tree of C1.
ForExprs ==
    {[kind |-> k, ops |-> o] :
        k \in {"ident", "int"}, o \in Words({<<"Add">>, <<"Mul">>}, MaxForOps)}

ExprTokens(x) == ExprWord(x.kind, x.ops)

ExprTree(x) ==
    ExpectedTree([i \in 1..(Len(x.ops) + 1) |-> OperandTree(x.kind, i)],
                 [i \in 1..Len(x.ops) |-> find_op(TokPunct(x.ops[i]))[1]])

\* The loop variable: `x`, `var/x` or `var/o/x`.
ForVars == {"bare", "var", "typed"}

VarTokens(v) ==
    CASE v = "bare"  -> <<Id("x")>>
      [] v = "var"   -> <<Keyword(<<"v", "a", "r">>), TokPunct("Slash"), Id("x")>>
      [] v = "typed" -> <<Keyword(<<"v", "a", "r">>), TokPunct("Slash"), Id("o"),
                          TokPunct("Slash"), Id("x")>>

\* Option<VarType> of the loop variable.
VarTypeOf(v) ==
    CASE v = "bare"  -> <<>>
      [] v = "var"   -> <<<<>>>>
      [] v = "typed" -> <<<<Bytes(<<"o">>)>>>>

Optional(S) == {<<>>} \cup {<<x>> : x \in S}

\* The init and inc statements of a C-style loop.
ForStatements ==
    {[s |-> "var", v |-> v, value |-> e] : v \in {"var", "typed"}, e \in Optional(ForExprs)}
    \cup {[s |-> "expr", e |-> e] : e \in ForExprs}

StatementTokens(st) ==
    IF st.s = "var"
    THEN VarTokens(st.v)
         \o (IF st.value = <<>> THEN <<>> ELSE <<TokPunct("Assign")>> \o ExprTokens(st.value[1]))
    ELSE ExprTokens(st.e)

StatementTree(st) ==
    IF st.s = "var"
    THEN [s |-> "Var", var_type |-> VarTypeOf(st.v)[1], name |-> Bytes(<<"x">>),
          value |-> IF st.value = <<>> THEN <<>> ELSE <<ExprTree(st.value[1])>>]
    ELSE [s |-> "Expr", expr |-> ExprTree(st.e)]

ForHeaders ==
    {[h |-> "list", v |-> v, in_list |-> e] : v \in ForVars, e \in Optional(ForExprs)}
    \cup {[h |-> "range_in", v |-> v, start |-> e, end |-> f, step |-> s] :
             v \in ForVars, e \in ForExprs, f \in ForExprs,
             s \in Optional({[kind |-> "int", ops |-> <<>>]})}
    \cup {[h |-> "range_eq", v |-> v, start |-> e, end |-> f, step |-> s] :
             v \in {"var", "typed"}, e \in ForExprs, f \in ForExprs,
             s \in Optional({[kind |-> "int", ops |-> <<>>]})}
    \cup {[h |-> "loop", init |-> i, sep1 |-> c, test |-> t, sep2 |-> d, inc |-> n] :
             i \in Optional(ForStatements), c \in {"Comma", "Semicolon"},
             t \in Optional(ForExprs), d \in {"Comma", "Semicolon"},
             n \in Optional({[s |-> "expr", e |-> [kind |-> "ident", ops |-> <<>>]]})}

OptTokens(o, Tokens(_)) == IF o = <<>> THEN <<>> ELSE Tokens(o[1])

HeaderTokens(h) ==
    CASE h.h = "list" ->
            VarTokens(h.v)
            \o (IF h.in_list = <<>> THEN <<>>
                ELSE <<TokPunct("In")>> \o ExprTokens(h.in_list[1]))
      [] h.h \in {"range_in", "range_eq"} ->
            VarTokens(h.v)
            \o <<TokPunct(IF h.h = "range_in" THEN "In" ELSE "Assign")>>
            \o ExprTokens(h.start) \o <<Keyword(<<"t", "o">>)>> \o ExprTokens(h.end)
            \o (IF h.step = <<>> THEN <<>>
                ELSE <<Keyword(<<"s", "t", "e", "p">>)>> \o ExprTokens(h.step[1]))
      [] h.h = "loop" ->
            OptTokens(h.init, StatementTokens) \o <<TokPunct(h.sep1)>>
            \o OptTokens(h.test, ExprTokens) \o <<TokPunct(h.sep2)>>
            \o OptTokens(h.inc, StatementTokens)

ForTokens(h) ==
    <<Keyword(<<"f", "o", "r">>), TokPunct("LParen")>> \o HeaderTokens(h)
    \o <<TokPunct("RParen"), TokPunct("LBrace"), TokPunct("RBrace")>>

ForInput(h) == Located(<<ForTokens(h)>>, 1)

ForInputs == {ForInput(h) : h \in ForHeaders}

\* let s = parser.statement();
ForParse ==
    /\ ppc = "new"
    /\ \E r \in {Parser("statement", <<px>>)} :
           /\ px' = r.p
           /\ pres' = [st |-> r.st, v |-> r.v, rest |-> <<>>]
    /\ ppc' = "parsed"
    /\ UNCHANGED <<lx, toks, ldone>>

NextFor == ForParse \/ ExprRest

SpecFor == InitParser(ForInputs, {FALSE}) /\ [][NextFor]_vars

OptTree(o, Tree(_)) == IF o = <<>> THEN <<>> ELSE <<Tree(o[1])>>

\* The statement each header stands for.
ForStatement(h) ==
    CASE h.h = "list" ->
            [s |-> "ForList", var_type |-> VarTypeOf(h.v), name |-> Bytes(<<"x">>),
             input_type |-> {}, in_list |-> OptTree(h.in_list, ExprTree), block |-> <<>>]
      [] h.h \in {"range_in", "range_eq"} ->
            [s |-> "ForRange", var_type |-> VarTypeOf(h.v), name |-> Bytes(<<"x">>),
             start |-> ExprTree(h.start), end |-> ExprTree(h.end),
             step |-> OptTree(h.step, ExprTree), block |-> <<>>]
      [] h.h = "loop" ->
            [s |-> "ForLoop", init |-> OptTree(h.init, StatementTree),
             test |-> OptTree(h.test, ExprTree), inc |-> OptTree(h.inc, StatementTree),
             block |-> <<>>]

\* No two headers have the same tokens, so an input names its header.
ForTable == {<<ForInput(h), h>> : h \in ForHeaders}

HeadersDistinct == Cardinality(ForInputs) = Cardinality(ForHeaders)

HeaderOf(input) == (CHOOSE e \in ForTable : e[1] = input)[2]

Parsed == ppc \in {"parsed", "end"}

\* C19: a bare identifier is accepted as the loop variable: `for (x in L) B`
\* is a list-for with name x and in_list L and `for (x in A to B) B` is a
\* range-for, as the headers written with `var/x` are, without a var_type.
C19_BareLoopVariable ==
    Parsed =>
        LET h == HeaderOf(px.input)
        IN  h.h \in {"list", "range_in"} /\ h.v = "bare" =>
                /\ pres.st = "Some"
                /\ pres.v = ForStatement(h)

\* The bare identifier alone, `for (x) B`, is a list-for with name x.
C19_BareAlone ==
    Parsed =>
        LET h == HeaderOf(px.input)
        IN  h.h = "list" /\ h.v = "bare" /\ h.in_list = <<>> =>
                /\ pres.st = "Some"
                /\ pres.v = ForStatement(h)

\* `for (x in L) B` and `for (x in A to B) B` are errors.
C19_BareInIsError ==
    Parsed =>
        LET h == HeaderOf(px.input)
        IN  /\ h.h = "range_in" \/ (h.h = "list" /\ h.in_list # <<>>)
            /\ h.v = "bare"
            =>
                pres.st = "Err"

\* C20: an init statement followed by `,` or `;` gives a ForLoop; a `var`
\* with an initializer followed by `to` gives a ForRange that starts at the
\* initializer, ends at the expression after `to` and has a step exactly when
\* `step s` follows; a `var` without initializer followed by `in E to F` gives
\* a ForRange that starts at E; a `var` followed by `in E` without `to`, or by
\* nothing, gives a ForList.
C20_ForForms ==
    /\ HeadersDistinct
    /\ Parsed =>
          LET h == HeaderOf(px.input)
          IN  h.h = "loop" \/ h.v # "bare" =>
                  /\ pres.st = "Some"
                  /\ pres.v = ForStatement(h)
                  /\ ppc = "end" => pres.rest = <<EofToken>>

\* `for (var/o/x in a to 1 + 2 step 1) {}` has been parsed to a ForRange
\* that starts at a and has the step 1.
C20_Witness ==
    LET h == [h |-> "range_in", v |-> "typed", start |-> [kind |-> "ident", ops |-> <<>>],
              end |-> [kind |-> "int", ops |-> <<"Add">>],
              step |-> <<[kind |-> "int", ops |-> <<>>]>>]
    IN  /\ ppc = "end"
        /\ px.input = ForInput(h)
        /\ pres.st = "Some"
        /\ pres.v.s = "ForRange"
        /\ pres.v.step = <<OperandTree("int", 1)>>
        /\ pres.v.start = OperandTree("ident", 1)


(***************************************************************************)
(* SpecNumber: the lexer over one numeric literal: `0x` and hexadecimal    *)
(* digits, `0` and decimal digits, and decimal integers around and above   *)
(* i32::MAX.                                                               *)
(***************************************************************************)
MaxDigits == 3

HexAlphabet == {Bytes(<<c>>) : c \in {"0", "1", "9", "a", "e", "F"}}

OctAlphabet == {Bytes(<<c>>) : c \in {"0", "1", "7", "8", "9"}}

BigAlphabet == {Bytes(<<c>>) : c \in {"0", "6", "7", "8"}}

\* Nine digits: one more makes a number near or above i32::MAX.
BigHeads ==
    {Bytes(<<"2", "1", "4", "7", "4", "8", "3", "6", "4">>),
     Bytes(<<"1", "6", "7", "7", "7", "2", "1", "6", "0">>),
     Bytes(<<"3", "0", "0", "0", "0", "0", "0", "0", "0">>),
     Bytes(<<"4", "2", "9", "4", "9", "6", "7", "2", "9">>),
     Bytes(<<"9", "9", "9", "9", "9", "9", "9", "9", "9">>)}

\* `0x1F`, `0x7FFFFFFF`, `07`, `08`.
ExampleHex == Bytes(<<"0", "x", "1", "F">>)

ExampleHexMax == Bytes(<<"0", "x", "7", "F", "F", "F", "F", "F", "F", "F">>)

ExampleOct == Bytes(<<"0", "7">>)

ExampleBadOct == Bytes(<<"0", "8">>)

\* `017777777777` is i32::MAX and `020000000000` is one more.
ExampleOctMax == Bytes(<<"0", "1", "7", "7", "7", "7", "7", "7", "7", "7", "7", "7">>)

ExampleOctOver == Bytes(<<"0", "2", "0", "0", "0", "0", "0", "0", "0", "0", "0", "0">>)

\* `2147483648`.
ExampleBig == Bytes(<<"2", "1", "4", "7", "4", "8", "3", "6", "4", "8">>)

HexInputs ==
    {Bytes(<<"0", "x">>) \o w : w \in Words(HexAlphabet, MaxDigits) \ {<<>>}}
    \cup {ExampleHex, ExampleHexMax}

OctInputs ==
    {Bytes(<<"0">>) \o w : w \in Words(OctAlphabet, MaxDigits)}
    \cup {ExampleOctMax, ExampleOctOver}

BigInputs ==
    {h \o w : h \in BigHeads, w \in Words(BigAlphabet, MaxDigits - 1) \ {<<>>}}

NumberInputs == HexInputs \cup OctInputs \cup BigInputs

SpecNumber == InitLexer(NumberInputs) /\ [][NextLex]_vars

\* The value of a digit string in a base, written without the lexer.
DigitOf(b) ==
    IF b >= B("0") /\ b <= B("9") THEN b - B("0")
    ELSE IF b >= B("a") /\ b <= B("f") THEN 10 + b - B("a")
    ELSE IF b >= B("A") /\ b <= B("F") THEN 10 + b - B("A")
    ELSE 16

RECURSIVE ValueIn(_, _)
ValueIn(digits, base) ==
    IF digits = <<>> THEN 0
    ELSE ValueIn(SubSeq(digits, 1, Len(digits) - 1), base) * base
         + DigitOf(digits[Len(digits)])

RECURSIVE Significant(_)
Significant(digits) ==
    IF digits # <<>> /\ digits[1] = B("0") THEN Significant(Tail(digits)) ELSE digits

\* The hexadecimal digits have a value that fits in i32.
HexFits(digits) ==
    LET s == Significant(digits)
    IN  Len(s) < 8 \/ (Len(s) = 8 /\ DigitOf(s[1]) < 8)

\* The input is `0x` and one or more hexadecimal digits whose value fits.
IsHexLiteral(input) ==
    /\ Len(input) > 2
    /\ input[1] = B("0") /\ input[2] = B("x")
    /\ \A i \in 3..Len(input) : DigitOf(input[i]) < 16
    /\ HexFits(SubSeq(input, 3, Len(input)))

\* The whole input came out as the one token t, then the final Newline.
OneToken(t) ==
    /\ Len(toks) >= 1 => toks[1].token = t
    /\ Len(toks) >= 2 => Synthetic(toks[2])
    /\ ldone => Len(toks) = 2

\* C21: `0x` followed by one or more hexadecimal digits (0-9, a-f, A-F) whose
\* value fits in i32 is lexed as exactly one Int token with that base-16
\* value, for every such digit string; `0x1F` gives Int(31).
C21_HexLiteral ==
    /\ IsHexLiteral(lx.input) =>
          OneToken(TokInt(ValueIn(SubSeq(lx.input, 3, Len(lx.input)), 16)))
    /\ lx.input = ExampleHex => OneToken(TokInt(31))

HasDigitE(input) == \E i \in 3..Len(input) : input[i] = B("e")

\* The same for the digit strings without a lower-case `e`.
C21_WithoutE == HasDigitE(lx.input) \/ C21_HexLiteral

\* With a lower-case `e` among the digits the token is a Float.
C21_WithE ==
    IsHexLiteral(lx.input) /\ HasDigitE(lx.input) /\ Len(toks) >= 1 =>
        toks[1].token.kind = "Float"


\* The input starts with `0` and consists of decimal digits only.
IsOctLiteral(input) ==
    /\ Len(input) >= 1
    /\ input[1] = B("0")
    /\ \A i \in 1..Len(input) : DigitOf(input[i]) < 10

AllOctal(input) == \A i \in 1..Len(input) : DigitOf(input[i]) < 8

OctFits(digits) ==
    LET s == Significant(digits)
    IN  Len(s) < 11 \/ (Len(s) = 11 /\ DigitOf(s[1]) < 2)

\* The diagnostics the lexer has recorded are exactly one `bad base-8
\* integer`, or none.
BadOctal(yes) ==
    Len(toks) >= 1 =>
        [i \in 1..Len(lx.errors) |-> lx.errors[i].msg]
            = IF yes THEN <<"bad base-8 integer">> ELSE <<>>

\* C22 as stated: a literal that starts with `0`, is not followed by `x` and
\* consists of decimal digits only is one token read in base 8: Int of the
\* octal value when all digits are 0-7 (`07` gives Int(7)); Int(0) with a
\* `bad base-8 integer` diagnostic when it contains 8 or 9, the whole digit
\* run being consumed as that one token.
C22_OctalLiteral ==
    /\ IsOctLiteral(lx.input) /\ AllOctal(lx.input) =>
          /\ toks # <<>> => toks[1].token.kind = "Int"
          /\ OctFits(lx.input) => OneToken(TokInt(ValueIn(lx.input, 8)))
          /\ BadOctal(FALSE)
    /\ IsOctLiteral(lx.input) /\ ~AllOctal(lx.input) =>
          OneToken(TokInt(0)) /\ BadOctal(TRUE)
    /\ lx.input = ExampleOct => OneToken(TokInt(7))
    /\ lx.input = ExampleBadOct => OneToken(TokInt(0)) /\ BadOctal(TRUE)

\* C22 amended: the literal is one token read in base 8: Int of the octal
\* value when all digits are 0-7 and the value fits in i32; Int(0) with a
\* `bad base-8 integer` diagnostic when it contains 8 or 9 or the value does
\* not fit in i32.
C22_OctalLiteralThatFits ==
    /\ IsOctLiteral(lx.input) /\ AllOctal(lx.input) /\ OctFits(lx.input) =>
          OneToken(TokInt(ValueIn(lx.input, 8))) /\ BadOctal(FALSE)
    /\ IsOctLiteral(lx.input) /\ ~(AllOctal(lx.input) /\ OctFits(lx.input)) =>
          OneToken(TokInt(0)) /\ BadOctal(TRUE)
    /\ lx.input = ExampleOct => OneToken(TokInt(7))
    /\ lx.input = ExampleBadOct => OneToken(TokInt(0)) /\ BadOctal(TRUE)

\* `0178` has been lexed to the end: one Int(0), one diagnostic, the final
\* Newline.
C22_Witness ==
    /\ lx.input = Bytes(<<"0", "1", "7", "8">>)
    /\ ldone
    /\ TokensOf(toks) = <<TokInt(0), TokPunct("Newline")>>
    /\ Len(lx.errors) = 1

\* `017` has been lexed to Int(15).
C22_WitnessOctal ==
    /\ lx.input = Bytes(<<"0", "1", "7">>)
    /\ ldone
    /\ TokensOf(toks) = <<TokInt(15), TokPunct("Newline")>>
    /\ lx.errors = <<>>


\* `3000000000` and `16777216000` (125 * 2^27): f32 holds both exactly and
\* prints them with the same digits.
ExampleRound == Bytes(<<"3", "0", "0", "0", "0", "0", "0", "0", "0", "0">>)

ExampleExact == Bytes(<<"1", "6", "7", "7", "7", "2", "1", "6", "0", "0", "0">>)

\* The input is a base-10 integer literal whose value does not fit in i32:
\* decimal digits, the first not 0, more than ten of them or ten that are
\* above 2147483647.
IsBigLiteral(input) ==
    /\ Len(input) >= 10
    /\ \A i \in 1..Len(input) : DigitOf(input[i]) < 10
    /\ input[1] # B("0")
    /\ \/ Len(input) > 10
       \/ ValueIn(SubSeq(input, 1, 9), 10) > I32_MAX \div 10
       \/ /\ ValueIn(SubSeq(input, 1, 9), 10) = I32_MAX \div 10
          /\ DigitOf(input[10]) > I32_MAX % 10

\* The digits of the literal up to its last digit that is not 0.
SignificantDigits(input) ==
    Cardinality({i \in 1..Len(input) : \E j \in i..Len(input) : input[j] # B("0")})

PrecisionWarnings ==
    {i \in 1..Len(lx.errors) :
        /\ lx.errors[i].severity = "Warning"
        /\ lx.errors[i].msg = "precision loss of integer constant"}

\* The literal is one Float token of its digits and nothing but precision
\* warnings is recorded, at most one.
OneFloat ==
    /\ OneToken(TokFloat(lx.input, 0))
    /\ PrecisionWarnings = 1..Len(lx.errors)
    /\ Len(lx.errors) <= 1

\* C23 as stated: every base-10 integer literal whose value does not fit in
\* i32 is one Float token, and a Warning-severity precision-loss diagnostic is
\* recorded for it; `2147483648` gives the Float and the warning.
C23_FloatWithWarning ==
    IsBigLiteral(lx.input) =>
        /\ OneFloat
        /\ toks # <<>> => Len(lx.errors) = 1

\* C23 amended: every such literal is one Float token; the warning is recorded
\* when the literal has ten or more significant digits (`2147483648`), and is
\* not recorded when f32 prints the literal back digit for digit, as it does
\* for up to six significant digits followed by zeros (`3000000000`) and for
\* `16777216000`.
C23_FloatWarnsOnLoss ==
    /\ IsBigLiteral(lx.input) =>
          /\ OneFloat
          /\ toks # <<>> /\ SignificantDigits(lx.input) >= 10 => Len(lx.errors) = 1
          /\ SignificantDigits(lx.input) <= 6 => lx.errors = <<>>
    /\ lx.input = ExampleBig /\ toks # <<>> => Len(lx.errors) = 1
    /\ lx.input \in {ExampleRound, ExampleExact} => OneFloat /\ lx.errors = <<>>
    /\ ~IsBigLiteral(lx.input) => PrecisionWarnings = {}

\* `2147483648` has been lexed to the end: one Float, the final Newline and
\* one precision warning.
C23_Witness ==
    /\ lx.input = ExampleBig
    /\ ldone
    /\ TokensOf(toks) = <<TokFloat(ExampleBig, 0), TokPunct("Newline")>>
    /\ PrecisionWarnings = {1}

\* `3000000000` has been lexed to the end: one Float and no diagnostic.
C23_WitnessExact ==
    /\ lx.input = ExampleRound
    /\ ldone
    /\ TokensOf(toks) = <<TokFloat(ExampleRound, 0), TokPunct("Newline")>>
    /\ lx.errors = <<>>


\* The location a is before the location b in the source.
Before(a, b) == a.line < b.line \/ (a.line = b.line /\ a.column < b.column)

\* No diagnostic of the list lies before one registered earlier.
InSourceOrder(errors) ==
    \A i \in 1..Len(errors) : \A j \in (i + 1)..Len(errors) :
        ~Before(errors[j].loc, errors[i].loc)

\* C24: diagnostics are registered in the context in source order: the
\* location of a registered diagnostic is never before the location of a
\* diagnostic registered earlier, by the lexer or by the parser.
C24_SourceOrder ==
    /\ lx # <<>> => InSourceOrder(lx.errors)
    /\ px # <<>> => InSourceOrder(px.errors)


(***************************************************************************)
(* SpecStatement: statement() over `var` followed by a few tokens of a     *)
(* declaration: path separators, `tmp`, a name, an initializer.            *)
(***************************************************************************)
MaxStatementLen == 4

StatementAlphabet ==
    {<<TokPunct("Slash")>>, <<TokPunct("Dot")>>, <<Keyword(<<"t", "m", "p">>)>>,
     <<Id("x")>>, <<TokPunct("Assign")>>, <<TokInt(1)>>}

StatementInputs ==
    {Located(<<<<Keyword(<<"v", "a", "r">>)>> \o w>>, 1) :
        w \in Words(StatementAlphabet, MaxStatementLen)}

SpecStatement == InitParser(StatementInputs, {FALSE}) /\ [][NextFor]_vars

\* `var/tmp.x` has been read: the warning for the `.` is followed by the
\* warning for `tmp`, located at `var`.
C24_OutOfOrder ==
    /\ ppc = "end"
    /\ px.input = Located(<<<<Keyword(<<"v", "a", "r">>), TokPunct("Slash"),
                            Keyword(<<"t", "m", "p">>), TokPunct("Dot"), Id("x")>>>>, 1)
    /\ [i \in 1..Len(px.errors) |-> px.errors[i].loc] = <<Location(1, 4), Location(1, 1)>>


(***************************************************************************)
(* Token::separate_from, Token::is_whitespace and impl Display for Token.  *)
(***************************************************************************)
\* The punctuation that is printed with a space on either side.
SpaceSurrounded ==
    {"Eq", "NotEq", "Mod", "And", "BitAndAssign", "Mul", "Pow", "MulAssign", "Add",
     "AddAssign", "Sub", "SubAssign", "DivAssign", "Colon", "Less", "LShift",
     "LShiftAssign", "LessEq", "LessGreater", "Assign", "Greater", "GreaterEq",
     "RShift", "RShiftAssign", "QuestionMark", "BitXorAssign", "BitOrAssign", "Or"}

\* Token::separate_from: self.separate_from(prev).
separate_from(self, prev) ==
    IF \E each \in {self, prev} : each.kind = "Punct" /\ each.p \in SpaceSurrounded
    THEN TRUE
    ELSE IF (prev.kind = "Ident" /\ prev.ws) \/ (prev.kind = "Punct" /\ prev.p = "Comma")
    THEN TRUE
    ELSE IF \/ prev.kind = "Ident"
               /\ self.kind \in {"Punct", "InterpStringEnd", "InterpStringPart"}
            \/ prev.kind \in {"Punct", "InterpStringBegin", "InterpStringPart"}
               /\ self.kind = "Ident"
    THEN FALSE
    ELSE prev.kind = "Ident" \/ self.kind = "Ident"

\* Token::is_whitespace.
is_whitespace(tok) ==
    \/ tok.kind = "Punct" /\ tok.p \in {"Tab", "Newline", "Space"}
    \/ tok.kind = "Eof"

\* Punctuation::value: the literal of the entry in the table.
Punctuation_value(p) ==
    LET hits == SelectSeq(PUNCT_TABLE, LAMBDA e : e.p = p)
    IN  hits[1].lit

\* i32 as Display: the decimal digits of a value that is not negative.
RECURSIVE i32_to_string(_)
i32_to_string(n) ==
    IF n < 10 THEN <<B("0") + n>>
    ELSE Append(i32_to_string(n \div 10), B("0") + (n % 10))

\* f32 as Display, for the value of a buffer `digits` or `digits.digits` of
\* few digits (f32 gives such a decimal back): the integer part without
\* leading zeros, and the fraction without trailing zeros when one is left.
\* Other buffers (an exponent, `inf`) are not among the inputs on which the
\* printed form is used.
f32_to_string(buf) ==
    LET dots == {i \in 1..Len(buf) : buf[i] = B(".")}
        d    == IF dots = {} THEN Len(buf) + 1 ELSE CHOOSE i \in dots : TRUE
        int  == SubSeq(buf, 1, d - 1)
        frac == SubSeq(buf, d + 1, Len(buf))
        lead == Cardinality({i \in 1..Len(int) : \A j \in 1..i : int[j] = B("0")})
        last == Cardinality({i \in 1..Len(frac) : \E j \in i..Len(frac) : frac[j] # B("0")})
        ip   == IF lead = Len(int) THEN <<B("0")>> ELSE SubSeq(int, lead + 1, Len(int))
    IN  IF last = 0 THEN ip ELSE ip \o <<B(".")>> \o SubSeq(frac, 1, last)

\* impl Display for Token.
Token_fmt(tok) ==
    CASE tok.kind = "Eof" -> Bytes(<<"_", "_", "E", "O", "F", "_", "_">>)
      [] tok.kind = "Punct" -> Punctuation_value(tok.p)
      [] tok.kind = "Ident" -> tok.text
      [] tok.kind = "String" -> <<B("\"")>> \o tok.text \o <<B("\"")>>
      [] tok.kind = "InterpStringBegin" -> <<B("\"")>> \o tok.text \o <<B("[")>>
      [] tok.kind = "InterpStringPart" -> <<B("]")>> \o tok.text \o <<B("[")>>
      [] tok.kind = "InterpStringEnd" -> <<B("]")>> \o tok.text \o <<B("\"")>>
      [] tok.kind = "Resource" -> <<B("'")>> \o tok.text \o <<B("'")>>
      [] tok.kind = "Int" -> i32_to_string(tok.num)
      [] tok.kind = "Float" -> f32_to_string(tok.text)

(***************************************************************************)
(* SpecRound: the lexer over a short input, then the printed form of its   *)
(* tokens lexed again.                                                     *)
(***************************************************************************)
MaxRoundLen == 3

RoundAlphabet ==
    {Bytes(<<c>>) : c \in {"a", " ", "1", ".", "/", "\"", "(", "=", ","}}
    \cup {Bytes(<<"i", "n">>)}

RoundInputs == Words(RoundAlphabet, MaxRoundLen)

NonWhitespace(ts) == SelectSeq(ts, LAMBDA t : ~is_whitespace(t))

\* The Display forms of the tokens, a single space between two of them
\* exactly when separate_from says so.
RECURSIVE Written(_, _)
Written(ts, k) ==
    IF k > Len(ts) THEN <<>>
    ELSE (IF k > 1 /\ separate_from(ts[k], ts[k - 1]) THEN <<B(" ")>> ELSE <<>>)
         \o Token_fmt(ts[k]) \o Written(ts, k + 1)

\* Every token the lexer l gives until it returns None.
RECURSIVE LexAll(_, _)
LexAll(l, acc) ==
    LET r == Lexer_iter_next(l)
    IN  IF r.out = <<>> \/ r.l.panicked THEN acc
        ELSE LexAll(r.l, Append(acc, r.out[1].token))

\* The tokens have all been returned: they are written and the text is lexed.
Relex ==
    /\ ldone
    /\ ppc = "idle"
    /\ \E text \in {Written(NonWhitespace(TokensOf(toks)), 1)} :
           pres' = [text |-> text, tokens |-> NonWhitespace(LexAll(Lexer_new(text), <<>>))]
    /\ ppc' = "relexed"
    /\ UNCHANGED <<lx, toks, ldone, px>>

NextRound == LexToken \/ LexNone \/ Relex

SpecRound == InitLexer(RoundInputs) /\ [][NextRound]_vars

\* The tokens compared as values: without the flag of an identifier that
\* tells whether whitespace followed it, and a Float by its value, which its
\* printed form stands for.
Unspaced(ts) ==
    [i \in 1..Len(ts) |->
        IF ts[i].kind = "Float" THEN TokFloat(f32_to_string(ts[i].text), 0)
        ELSE [ts[i] EXCEPT !.ws = FALSE]]

\* C25: for every input, the Display forms of the emitted non-whitespace
\* tokens, written with a single space between two tokens exactly when
\* separate_from returns true for them, lex to the same sequence of
\* non-whitespace tokens (here: the same but for the whitespace flag of the
\* identifiers).
C25_RoundTrip ==
    ppc = "relexed" =>
        Unspaced(pres.tokens) = Unspaced(NonWhitespace(TokensOf(toks)))

\* `1 1` has been lexed to Int(1), Int(1), written as `11` and lexed again to
\* Int(11).
C25_Merged ==
    /\ ppc = "relexed"
    /\ lx.input = Bytes(<<"1", " ", "1">>)
    /\ pres.text = Bytes(<<"1", "1">>)
    /\ pres.tokens = <<TokInt(11)>>

\* An input whose tokens are lexed again as they were: `a = 1`.
C25_Kept ==
    /\ ppc = "relexed"
    /\ lx.input = Bytes(<<"a", "=", "1">>)
    /\ pres.text = Bytes(<<"a", " ", "=", " ", "1">>)
    /\ Unspaced(pres.tokens) = <<TokIdent(Bytes(<<"a">>), FALSE), TokPunct("Assign"), TokInt(1)>>
    /\ Unspaced(pres.tokens) = Unspaced(NonWhitespace(TokensOf(toks)))


(***************************************************************************)
(* SpecTracker: LocationTracker::next called on a short stream until it    *)
(* returns None.  toks holds the items returned, each with the location    *)
(* the tracker reports after the call.                                     *)
(***************************************************************************)
MaxTrackLen == 4

TrackAlphabet == {Bytes(<<"a">>), Bytes(<<"\t">>), Bytes(<<"\n">>), <<IoErr>>}

TrackInputs == Words(TrackAlphabet, MaxTrackLen)

\* let item = tracker.next(); let at = tracker.location();
TrackerNext ==
    /\ ~ldone
    /\ \E r \in {Lexer("LocationTracker_next", <<lx>>)} :
           /\ lx' = r.l
           /\ toks' = Append(toks, [item |-> r.item, location |-> Lexer_location(r.l)])
           /\ ldone' = (r.item = <<>>)
    /\ UNCHANGED <<px, ppc, pres>>

SpecTracker == InitLexer(TrackInputs) /\ [][TrackerNext]_vars

IsByte(item) == item # <<>> /\ ~IsIoErr(item[1])

\* The bytes of the stream: its items that are not errors.
StreamBytes(input) == SelectSeq(input, LAMBDA x : ~IsIoErr(x))

\* How many of the first i calls returned a byte.
BytesGiven(i) == Cardinality({j \in 1..i : IsByte(toks[j].item)})

\* C26: the k-th byte of the stream is reported at line 1 + the number of
\* `\n` bytes before it and column 1 + the number of bytes after the last
\* `\n` before it: the first byte is at line 1, column 1, a tab advances the
\* column by exactly one, the line changes only in the call that follows a
\* `\n`, and line numbers never decrease.
C26_ByteLocation ==
    LET bytes == StreamBytes(lx.input)
    IN  \A i \in 1..Len(toks) :
            /\ IsByte(toks[i].item) =>
                  LET k == BytesGiven(i)
                  IN  /\ toks[i].item = <<bytes[k]>>
                      /\ toks[i].location = Location(LineOf(bytes, k), ColumnOf(bytes, k))
                      /\ k = 1 => toks[i].location = Location(1, 1)
            /\ i > 1 =>
                  /\ toks[i].location.line >= toks[i - 1].location.line
                  /\ toks[i].location.line # toks[i - 1].location.line =>
                        toks[i - 1].item = <<B("\n")>>
                  /\ toks[i].item = <<B("\t")>> /\ toks[i - 1].item # <<B("\n")>> =>
                        toks[i].location.column = toks[i - 1].location.column + 1

\* The stream tab, a, newline, tab has been read: the bytes were reported at
\* 1:1, 1:2, 1:3 and 2:1.
C26_Witness ==
    /\ lx.input = Bytes(<<"\t", "a", "\n", "\t">>)
    /\ ldone
    /\ [i \in 1..4 |-> toks[i].location]
           = <<Location(1, 1), Location(1, 2), Location(1, 3), Location(2, 1)>>


(***************************************************************************)
(* SpecNested: run() over one entry with a block that holds an entry, or a *)
(* second block with an entry; each of the paths is written with or        *)
(* without a leading `/`.                                                  *)
(***************************************************************************)
MaxPathLen == 2

\* A path of the level: `a`, `a/b`, ... for the outer entry, `c`, ... and
\* `e`, ... for the entries inside.
PathNames(level) ==
    [i \in 1..MaxPathLen |-> <<B(<<"a", "c", "e">>[level]) + i - 1>>]

NestedPaths(level) ==
    {[absolute |-> s, parts |-> SubSeq(PathNames(level), 1, n)] :
        s \in BOOLEAN, n \in 1..MaxPathLen}

RECURSIVE PartTokens(_)
PartTokens(parts) ==
    IF Len(parts) = 1 THEN <<TokIdent(parts[1], FALSE)>>
    ELSE <<TokIdent(parts[1], FALSE), TokPunct("Slash")>> \o PartTokens(Tail(parts))

PathTokens(path) ==
    (IF path.absolute THEN <<TokPunct("Slash")>> ELSE <<>>) \o PartTokens(path.parts)

Nestings ==
    {[outer |-> o, mid |-> m, inner |-> i] :
        o \in NestedPaths(1), m \in Optional(NestedPaths(2)), i \in NestedPaths(3)}

NestingTokens(n) ==
    PathTokens(n.outer) \o <<TokPunct("LBrace")>>
    \o (IF n.mid = <<>> THEN <<>> ELSE PathTokens(n.mid[1]) \o <<TokPunct("LBrace")>>)
    \o PathTokens(n.inner) \o <<TokPunct("Semicolon")>>
    \o (IF n.mid = <<>> THEN <<>> ELSE <<TokPunct("RBrace")>>)
    \o <<TokPunct("RBrace")>>

NestedTable == {<<Located(<<NestingTokens(n)>>, 1), n>> : n \in Nestings}

NestedInputs == {e[1] : e \in NestedTable}

NestingOf(input) == (CHOOSE e \in NestedTable : e[1] = input)[2]

SpecNested == InitParser(NestedInputs, {FALSE}) /\ [][NextTree]_vars

NestedWarnings ==
    Cardinality({i \in 1..Len(px.errors) :
        px.errors[i].severity = "Warning" /\ px.errors[i].msg = "nested absolute path"})

\* The path handed to the tree builder for the last entry added: the
\* innermost one.
InnerPath == px.tree[Len(px.tree)].path

\* The path an entry has under the entries around it: its own segments when
\* it is absolute, else those of the enclosing entry followed by its own.
ChainOf(n) ==
    LET outer == n.outer.parts
        mid   == IF n.mid = <<>> THEN outer
                 ELSE IF n.mid[1].absolute THEN n.mid[1].parts
                 ELSE outer \o n.mid[1].parts
    IN  IF n.inner.absolute THEN n.inner.parts ELSE mid \o n.inner.parts

\* The entries inside a block that are written with a leading `/`.
AbsoluteInside(n) ==
    (IF n.mid # <<>> /\ n.mid[1].absolute THEN 1 ELSE 0)
    + (IF n.inner.absolute THEN 1 ELSE 0)

\* C27: every entry written with a leading `/` inside a tree block, whatever
\* the form of the enclosing entry's own path, records a `nested absolute
\* path` Warning, and the path handed to the tree builder consists of that
\* entry's own segments only.
C27_NestedAbsolute ==
    ppc \in {"ran", "done"} =>
        LET n == NestingOf(px.input)
        IN  /\ px.errors = <<>> \/ NestedWarnings = Len(px.errors)
            /\ NestedWarnings = AbsoluteInside(n)
            /\ InnerPath = ChainOf(n)

\* What holds: the path is reset by every leading `/`, and the Warning is
\* recorded exactly for the entries with a leading `/` whose enclosing entry
\* is written without one.
C27_WarnsUnderRelative ==
    ppc \in {"ran", "done"} =>
        LET n == NestingOf(px.input)
            encl == IF n.mid = <<>> THEN n.outer ELSE n.mid[1]
        IN  /\ InnerPath = ChainOf(n)
            /\ Cardinality(NestedInputs) = Cardinality(Nestings)
            /\ NestedWarnings
                   = (IF n.mid # <<>> /\ n.mid[1].absolute /\ ~n.outer.absolute THEN 1 ELSE 0)
                     + (IF n.inner.absolute /\ ~encl.absolute THEN 1 ELSE 0)

\* `/a { /e; }` has been read without a warning, and /e was added as `e`.
C27_Silent ==
    /\ ppc = "done"
    /\ px.input = Located(<<<<TokPunct("Slash"), Id("a"), TokPunct("LBrace"),
                            TokPunct("Slash"), Id("e"), TokPunct("Semicolon"),
                            TokPunct("RBrace")>>>>, 1)
    /\ px.errors = <<>>
    /\ InnerPath = <<Bytes(<<"e">>)>>


\* Every label of the message was recorded by a call of next() that returned
\* the token the message names.
FreshLabels(m) == \A i \in 1..Len(m.at) : m.at[i] = m.serial

\* C28: whenever the parser builds a `got 'X', expected one of: ...` message,
\* the list holds only labels recorded by next() calls made since the last
\* token was consumed, never labels recorded while alternatives were tried
\* for an earlier, already consumed token, also when X is the end-of-input
\* token.
C28_ExpectedIsFresh ==
    px # <<>> => \A i \in 1..Len(px.messages) : FreshLabels(px.messages[i])

\* The same for the messages that name a token of the input.
C28_FreshBeforeEof ==
    px # <<>> =>
        \A i \in 1..Len(px.messages) :
            px.messages[i].got # EofToken => FreshLabels(px.messages[i])

\* `var x` has been read and the end of the input is refused: the message
\* names Eof and lists `identifier`, the label under which x was read.
C28_StaleAtEof ==
    /\ ppc = "end"
    /\ px.input = Located(<<<<Keyword(<<"v", "a", "r">>), Id("x")>>>>, 1)
    /\ Len(px.messages) = 1
    /\ px.messages[1].got = EofToken
    /\ px.messages[1].serial = 3
    /\ \E i \in 1..Len(px.messages[1].labels) :
           /\ px.messages[1].labels[i].label = "identifier"
           /\ px.messages[1].at[i] = 2

(***************************************************************************)
(* SpecTT: read_any_tt and the buffering of a procedure body, over streams *)
(* of brackets, `;` and a name.  The parser may have peeked first, as      *)
(* tree_entry does with updated_location() before it fills body_tt.        *)
(***************************************************************************)
MaxTTLen == 4

TTAlphabet ==
    {TokPunct("LParen"), TokPunct("RParen"), TokPunct("LBrace"), TokPunct("RBrace"),
     TokPunct("Semicolon"), Id("a")}

\* `( { ) } )`: the `)` inside the braces does not close the parentheses.
ExampleCrossed ==
    <<TokPunct("LParen"), TokPunct("LBrace"), TokPunct("RParen"),
      TokPunct("RBrace"), TokPunct("RParen")>>

\* `a ( ; ) a ;`: the `;` inside the group does not end the body.
ExampleBody ==
    <<Id("a"), TokPunct("LParen"), TokPunct("Semicolon"), TokPunct("RParen"),
      Id("a"), TokPunct("Semicolon")>>

TTInputs ==
    {Located(<<w>>, 1) : w \in Words({<<t>> : t \in TTAlphabet}, MaxTTLen)}
    \cup {Located(<<ExampleCrossed>>, 1), Located(<<ExampleBody>>, 1)}

\* let start = self.updated_location();
Peek ==
    /\ ppc = "new"
    /\ px' = updated_location(px)
    /\ ppc' = "located"
    /\ pres' = pres
    /\ UNCHANGED <<lx, toks, ldone>>

\* self.read_any_tt(&mut body_tt), on a buffer that is empty or was filled by
\* the calls before.
ReadAnyTT ==
    /\ \/ ppc \in {"new", "located"}
       \/ ppc = "read" /\ pres.st = "Some"
    /\ \E r \in {Parser("read_any_tt", <<px, IF pres = <<>> THEN <<>> ELSE pres.tt>>)} :
           /\ px' = r.p
           /\ pres' = [st |-> r.st, tt |-> r.v]
    /\ ppc' = "read"
    /\ UNCHANGED <<lx, toks, ldone>>

\* while body_tt[0] != `{` && body_tt[last] != `;` { read_any_tt(&mut body_tt) }
BodyLoop ==
    /\ ppc = "read"
    /\ pres.st = "Some"
    /\ \E r \in {Parser("body_tt_loop", <<px, pres.tt>>)} :
           /\ px' = r.p
           /\ pres' = [st |-> r.st, tt |-> r.v]
    /\ ppc' = "body"
    /\ UNCHANGED <<lx, toks, ldone>>

NextTT == Peek \/ ReadAnyTT \/ BodyLoop

SpecTT == InitParser(TTInputs, {FALSE}) /\ [][NextTT]_vars

\* What the parser p has not consumed, each token with the location the
\* parser has for it: the token in the slot, the rest of the input, and the
\* Eof that next() makes up once, at the location of the last token.
Stream(p) ==
    [i \in 1..Len(p.next) |-> [location |-> p.location, token |-> p.next[i]]]
    \o SubSeq(p.input, p.ipos + 1, Len(p.input))
    \o (IF p.eof THEN <<>>
        ELSE <<[location |-> IF p.input = <<>> THEN p.location
                             ELSE p.input[Len(p.input)].location,
                token |-> EofToken]>>)

Opener == [Paren |-> TokPunct("LParen"), Brace |-> TokPunct("LBrace"),
           Bracket |-> TokPunct("LBracket")]

Closer == [Paren |-> TokPunct("RParen"), Brace |-> TokPunct("RBrace"),
           Bracket |-> TokPunct("RBracket")]

Kinds == DOMAIN Opener

\* The index in s where the groups in open, innermost last, are all closed,
\* reading from s[j]; 0 when s ends first.  A closer closes the innermost
\* open group when it is of its kind, and is an ordinary token otherwise.
RECURSIVE GroupEnd(_, _, _)
GroupEnd(s, j, open) ==
    IF j > Len(s) THEN 0
    ELSE IF s[j].token = Closer[open[Len(open)]]
    THEN IF Len(open) = 1 THEN j
         ELSE GroupEnd(s, j + 1, SubSeq(open, 1, Len(open) - 1))
    ELSE IF \E k \in Kinds : s[j].token = Opener[k]
    THEN GroupEnd(s, j + 1, Append(open, CHOOSE k \in Kinds : s[j].token = Opener[k]))
    ELSE GroupEnd(s, j + 1, open)

\* The index in s of the last token of the token tree that begins at s[i]:
\* i for a single token, the matching closer for a group; 0 when s ends
\* first.
TreeEnd(s, i) ==
    IF i > Len(s) THEN 0
    ELSE IF \E k \in Kinds : s[i].token = Opener[k]
    THEN GroupEnd(s, i + 1, <<CHOOSE k \in Kinds : s[i].token = Opener[k]>>)
    ELSE i

BodyComplete(tt) ==
    \/ tt[1].token = TokPunct("LBrace")
    \/ tt[Len(tt)].token = TokPunct("Semicolon")

\* The number of tokens of s the body loop takes after tt to complete the
\* body, whole token trees at a time; -1 when s ends first.
RECURSIVE BodyTake(_, _, _)
BodyTake(s, tt, taken) ==
    IF BodyComplete(tt) THEN taken
    ELSE LET e == TreeEnd(s, taken + 1)
         IN  IF e = 0 THEN -1
             ELSE BodyTake(s, tt \o SubSeq(s, taken + 1, e), e)

ReadAfterEof(p) ==
    /\ p.eof
    /\ Stream(p) = <<>>

\* C29, one call: read_any_tt appends to the buffer the run of tokens from
\* the next unread token to the end of its token tree, each with its own
\* location, and leaves the rest unread; when the input ends before the
\* tree does it returns the read-after-EOF error.
C29_ReadAnyTT ==
    (ppc' = "read") =>
        LET s   == Stream(px)
            e   == TreeEnd(s, 1)
            old == IF pres = <<>> THEN <<>> ELSE pres.tt
        IN  IF e = 0
            THEN /\ pres'.st = "Err"
                 /\ ReadAfterEof(px')
            ELSE /\ pres'.st = "Some"
                 /\ pres'.tt = old \o SubSeq(s, 1, e)
                 /\ Stream(px') = SubSeq(s, e + 1, Len(s))

\* C29, the body: the loop appends whole token trees until the first
\* buffered token is `{` or the last is `;`, takes nothing once that is so,
\* and returns the read-after-EOF error when the input ends first.
C29_BodyLoop ==
    (ppc = "read" /\ ppc' = "body") =>
        LET s == Stream(px)
            n == BodyTake(s, pres.tt, 0)
        IN  IF n = -1
            THEN /\ pres'.st = "Err"
                 /\ ReadAfterEof(px')
            ELSE /\ pres'.st = "Some"
                 /\ pres'.tt = pres.tt \o SubSeq(s, 1, n)
                 /\ BodyComplete(pres'.tt)
                 /\ Stream(px') = SubSeq(s, n + 1, Len(s))

\* C29: read_any_tt appends to the buffer exactly the contiguous run of
\* tokens it consumed, in order and with their own locations: one token when
\* the first is not `(`, `{` or `[`, otherwise all tokens up to and including
\* the closer that matches the first token's kind, inner groups balanced.
\* The buffering of a procedure body repeats it until the first buffered
\* token is `{` or the last is `;`, and returns an error when the input ends
\* first.
C29_TokenTrees == [][C29_ReadAnyTT /\ C29_BodyLoop]_vars

\* C29 happens: the body loop has buffered `a ( ; ) a ;` whole, after the
\* first call had taken `a` alone.
C29_Witness ==
    /\ ppc = "body"
    /\ pres.st = "Some"
    /\ [i \in 1..Len(pres.tt) |-> pres.tt[i].token] = ExampleBody
    /\ \A i \in 1..Len(pres.tt) : pres.tt[i] = px.input[i]

\* C29 happens: one call has taken the group `( { ) } )` whole.
C29_Crossed ==
    /\ ppc = "read"
    /\ pres.st = "Some"
    /\ pres.tt = px.input
    /\ [i \in 1..Len(pres.tt) |-> pres.tt[i].token] = ExampleCrossed

\* C29 happens: the input ended inside a body and the loop returned the
\* error.
C29_EndsFirst ==
    /\ ppc = "body"
    /\ pres.st = "Err"
    /\ Len(px.input) = MaxTTLen
    /\ px.eof

(***************************************************************************)
(* SpecString: the lexer over string literals with backslashes, brackets   *)
(* and line ends.                                                          *)
(***************************************************************************)
MaxStringLen == 4

StringAlphabet ==
    {Bytes(<<"\"">>), Bytes(<<"\\">>), Bytes(<<"[">>), Bytes(<<"]">>), Bytes(<<"a">>),
     Bytes(<<"\n">>)}

\* "a\[b\"c"
ExampleEscaped == Bytes(<<"\"", "a", "\\", "[", "b", "\\", "\"", "c", "\"">>)

\* {"a\"}b"}
ExampleBlock == Bytes(<<"{", "\"", "a", "\\", "\"", "}", "b", "\"", "}">>)

\* "\\[a]b"
ExampleConsumed == Bytes(<<"\"", "\\", "\\", "[", "a", "]", "b", "\"">>)

StringInputs ==
    {Bytes(<<"\"">>) \o w : w \in Words(StringAlphabet, MaxStringLen)}
        \cup {ExampleEscaped, ExampleBlock, ExampleConsumed}

SpecString == InitLexer(StringInputs) /\ [][NextLex]_vars

\* The byte input[i] directly follows a backslash that no backslash before it
\* has consumed; the string begins at input[from].
RECURSIVE Escaped(_, _, _)
Escaped(input, from, i) ==
    /\ i > from
    /\ input[i - 1] = B("\\")
    /\ ~Escaped(input, from, i - 1)

\* The bytes of input[from..to] that follow an unconsumed backslash and are
\* not a line end, in order.
RECURSIVE EscapedBytes(_, _, _, _)
EscapedBytes(input, from, i, to) ==
    IF i > to THEN <<>>
    ELSE (IF Escaped(input, from, i) /\ input[i] \notin {B("\r"), B("\n")}
          THEN <<input[i]>> ELSE <<>>)
         \o EscapedBytes(input, from, i + 1, to)

\* The bytes that follow the backslashes of a token text, read from the
\* left, a backslash taking the byte after it; 256 for a backslash that ends
\* the text.
RECURSIVE PairsOf(_, _)
PairsOf(text, i) ==
    IF i > Len(text) THEN <<>>
    ELSE IF text[i] # B("\\") THEN PairsOf(text, i + 1)
    ELSE IF i = Len(text) THEN <<IoErr>>
    ELSE <<text[i + 1]>> \o PairsOf(text, i + 2)

\* The step is a call of next() that returned a token read by read_string.
StringStep ==
    /\ Len(toks') = Len(toks) + 1
    /\ toks'[Len(toks')].end # <<>>

\* The index in the input of the first byte read_string read for the token
\* t: after the `"`, the `{"` or the `]`, or the first byte of the text of a
\* #warn or #error.
StringFrom(t) ==
    IF t.punct = "BlockString" THEN t.start + 2
    ELSE IF t.punct = "" THEN t.start
    ELSE t.start + 1

\* C30 on one token, read from input[from..to]: err says that the input
\* ended in the string, before and after are the interpolation stack when
\* read_string was called and when it returned.
StringRead(input, from, to, t, err, before, after) ==
    /\ PairsOf(t.token.text, 1) = EscapedBytes(input, from, from, to)
    /\ t.opened => /\ input[to] = B("[")
                   /\ ~Escaped(input, from, to)
    /\ (~t.opened /\ ~err) =>
           /\ SubSeq(input, to - Len(t.end) + 1, to) = t.end
           /\ \A i \in (to - Len(t.end) + 1)..to : ~Escaped(input, from, i)
    /\ \A i \in from..to :
           (input[i] = B("[") /\ ~Escaped(input, from, i)) => (i = to /\ t.opened)
    /\ after = IF t.opened
               THEN Append(before, [end |-> t.end, bracket_depth |-> 1])
               ELSE before
    /\ t.token.kind \in (IF t.opened THEN {"InterpStringBegin", "InterpStringPart"}
                         ELSE {"String", "InterpStringEnd"})

\* C30, the step.
C30_StringStep ==
    StringStep =>
        LET t   == toks'[Len(toks')]
            n   == Len(lx.interp_stack)
            err == Cardinality(Unterminated(lx')) > Cardinality(Unterminated(lx))
        IN  StringRead(lx.input, StringFrom(t),
                       IF err THEN Len(lx.input) ELSE lx'.cur, t, err,
                       IF t.closed THEN SubSeq(lx.interp_stack, 1, n - 1)
                       ELSE lx.interp_stack,
                       lx'.interp_stack)

\* C30: in read_string a byte that directly follows an unconsumed backslash
\* never ends the string and never opens an interpolation; unless it is CR
\* or LF the backslash and the byte are both copied to the token text, so
\* that the escape pairs of the text are the escaped bytes of the source in
\* order; and a `[` that follows no unconsumed backslash always pushes
\* exactly one frame with bracket_depth 1 and ends the token.
C30_EscapedBytes == [][C30_StringStep]_vars

\* C30 happens: "a\[b\"c" has been read as one String with both pairs in its
\* text and no frame pushed.
C30_Witness ==
    /\ lx.input = ExampleEscaped
    /\ Len(toks) = 1
    /\ toks[1].token = TokString("String", Bytes(<<"a", "\\", "[", "b", "\\", "\"", "c">>))
    /\ lx.interp_stack = <<>>

\* C30 happens: in "\\[a]b" the `[` follows a consumed backslash and has
\* opened an interpolation.
C30_Opened ==
    /\ lx.input = ExampleConsumed
    /\ Len(toks) = 1
    /\ toks[1].token = TokString("InterpStringBegin", Bytes(<<"\\", "\\">>))
    /\ lx.interp_stack = <<[end |-> Bytes(<<"\"">>), bracket_depth |-> 1]>>

\* C30 happens: in {"a\"}b"} the escaped `"` has not begun the end delimiter.
C30_Block ==
    /\ lx.input = ExampleBlock
    /\ Len(toks) = 1
    /\ toks[1].token = TokString("String", Bytes(<<"a", "\\", "\"", "}", "b">>))

(***************************************************************************)
(* SpecSpace: the lexer over spaces, tabs, line ends and backslashes, with *)
(* names, `//` comments and strings between them.                          *)
(***************************************************************************)
MaxSpaceLen == 4

SpaceAlphabet ==
    {Bytes(<<" ">>), Bytes(<<"\t">>), Bytes(<<"a">>), Bytes(<<"\n">>), Bytes(<<"\\">>),
     Bytes(<<"/", "/">>), Bytes(<<"\"">>)}

\* A continuation, a blank line and an indented name: only the second line
\* end and the indentation of the third line give tokens.
ExampleContinued == Bytes(<<"a", "\\", "\n", " ", "\n", " ", "a">>)

\* Indentation, then spaces between names, then a tab-indented line.
ExampleIndented ==
    Bytes(<<" ", " ", "a", " ", " ", "a", "\n", "\t", " ", "a", " ">>)

SpaceInputs ==
    Words(SpaceAlphabet, MaxSpaceLen) \cup {ExampleContinued, ExampleIndented}

SpecSpace == InitLexer(SpaceInputs) /\ [][NextLex]_vars

IsBlank(b) == b \in {B(" "), B("\t")}

\* The input has no string and no comment: every byte of it is at the top
\* level.
TopLevelOnly(input) ==
    \A i \in 1..Len(input) : input[i] \notin {B("\""), B("'"), B("/"), B("#")}

\* The line end input[n] follows a backslash with only spaces, tabs and
\* carriage returns between them.
ContinuedAt(input, n) ==
    /\ input[n] = B("\n")
    /\ \E b \in 1..(n - 1) :
           /\ input[b] = B("\\")
           /\ \A j \in (b + 1)..(n - 1) : input[j] \in {B(" "), B("\t"), B("\r")}

\* The physical line of input[i] was entered through a backslash
\* continuation.
LineContinued(input, i) ==
    LET n == i - ColumnOf(input, i)
    IN  n >= 1 /\ ContinuedAt(input, n)

\* The tokens that begin at the byte input[i].
TokensAt(i) == {k \in 1..Len(toks) : toks[k].start = i}

BlankToken(b) == IF b = B(" ") THEN TokPunct("Space") ELSE TokPunct("Tab")

\* C31, only if: a token begins at a space or tab only at the head of a
\* line, and it is the Space or Tab token of that byte; with every byte at
\* the top level, so that every backslash is a continuation, the line was
\* not entered through one.
C31_OnlyAtLineHead ==
    \A i \in 1..Len(lx.input) :
        IsBlank(lx.input[i]) =>
            \A k \in TokensAt(i) :
                /\ AtLineHead(lx.input, i)
                /\ TopLevelOnly(lx.input) => ~LineContinued(lx.input, i)
                /\ toks[k].token = BlankToken(lx.input[i])

\* C31, if: with every byte at the top level, each space or tab at the head
\* of a line that was not entered through a continuation gives exactly one
\* token.
C31_EveryLineHead ==
    (ldone /\ TopLevelOnly(lx.input)) =>
        \A i \in 1..Len(lx.input) :
            (IsBlank(lx.input[i]) /\ AtLineHead(lx.input, i)
                /\ ~LineContinued(lx.input, i))
            => Cardinality(TokensAt(i)) = 1

\* C31, the continuation: with every byte at the top level, a line end that
\* follows a backslash gives no token.
C31_NoNewline ==
    TopLevelOnly(lx.input) =>
        \A n \in 1..Len(lx.input) : ContinuedAt(lx.input, n) => TokensAt(n) = {}

\* C31: a space or tab outside strings and comments gives a Space or Tab
\* token exactly when every earlier byte of its physical line is a space or
\* tab and the line was not entered through a backslash continuation, and no
\* token anywhere else; after a top-level backslash one following line end
\* and the leading spaces and tabs of the next line give no token.
C31_Indentation == C31_OnlyAtLineHead /\ C31_EveryLineHead /\ C31_NoNewline

\* C31 happens: `a\`, a line of one space, and ` a` have been lexed: the
\* first line end and the space after it gave no token, the second line end
\* and the space of the third line did.
C31_Witness ==
    /\ ldone
    /\ lx.input = ExampleContinued
    /\ TokensAt(3) = {}
    /\ TokensAt(4) = {}
    /\ \E k \in TokensAt(5) : toks[k].token = TokPunct("Newline")
    /\ \E k \in TokensAt(6) : toks[k].token = TokPunct("Space")

\* C31 happens: in `  a  a`, a line end, and a tab, a space and `a `, the
\* indentation of both lines gave tokens and the other spaces gave none.
C31_Indented ==
    /\ ldone
    /\ lx.input = ExampleIndented
    /\ \A i \in {1, 2, 8, 9} : Cardinality(TokensAt(i)) = 1
    /\ \A i \in {4, 5, 11} : TokensAt(i) = {}

(***************************************************************************)
(* SpecSign: the lexer over a digit followed by digits, `e`, signs, `.`    *)
(* and `_`.                                                                *)
(***************************************************************************)
MaxSignLen == 4

SignAlphabet ==
    {Bytes(<<"1">>), Bytes(<<"e">>), Bytes(<<"+">>), Bytes(<<"-">>), Bytes(<<".">>),
     Bytes(<<"_">>)}

\* 1e+5
ExampleExponent == Bytes(<<"1", "e", "+", "5">>)

\* 1e+-5
ExampleTwoSigns == Bytes(<<"1", "e", "+", "-", "5">>)

SignInputs ==
    {Bytes(<<"1">>) \o w : w \in Words(SignAlphabet, MaxSignLen)}
        \cup {ExampleExponent, ExampleTwoSigns}

SpecSign == InitLexer(SignInputs) /\ [][NextLex]_vars

IsSign(b) == b \in {B("+"), B("-")}

\* The numeric literals among the tokens lexed so far that have a token
\* after them.
NumbersRead ==
    {k \in 1..(Len(toks) - 1) : toks[k].token.kind \in {"Int", "Float"}}

\* The index of the last byte consumed for the literal toks[k]: the byte
\* before the next token, or the last of the input when the next token is
\* the final Newline.  The inputs have no byte that is skipped between
\* tokens.
NumberEnd(k) ==
    IF toks[k + 1].start = 0 THEN Len(lx.input) ELSE toks[k + 1].start - 1

\* C32: while a numeric literal is scanned, a `+` or `-` is consumed as part
\* of it only when the byte consumed immediately before it is `e`; after a
\* digit, `.`, `_` or another sign it ends the literal and is left for the
\* next token.
C32_SignOnlyAfterE ==
    \A k \in NumbersRead :
        \A i \in (toks[k].start + 1)..NumberEnd(k) :
            IsSign(lx.input[i]) => lx.input[i - 1] = B("e")

\* What holds instead: a sign is consumed when an `e` is before it in the
\* literal with no digit between them, and a sign after a digit always ends
\* the literal.
C32_SignAfterExponent ==
    \A k \in NumbersRead :
        \A i \in (toks[k].start + 1)..NumberEnd(k) :
            IsSign(lx.input[i]) =>
                \E j \in (toks[k].start + 1)..(i - 1) :
                    /\ lx.input[j] = B("e")
                    /\ \A m \in (j + 1)..(i - 1) : ~is_digit(lx.input[m])

\* `1e+-5` has been read as one literal: both signs are in it.
C32_TwoSigns ==
    /\ lx.input = ExampleTwoSigns
    /\ Len(toks) = 2
    /\ toks[1].token.kind = "Float"
    /\ toks[2].start = 0

\* `1e+5` has been read as one literal.
C32_Exponent ==
    /\ lx.input = ExampleExponent
    /\ Len(toks) = 2
    /\ toks[1].token.kind = "Float"
    /\ toks[2].start = 0

(***************************************************************************)
(* SpecComment: the lexer over a comment opener followed by slashes,       *)
(* stars, backslashes, line ends and a name.                               *)
(***************************************************************************)
MaxCommentLen == 4

CommentAlphabet ==
    {Bytes(<<"/">>), Bytes(<<"*">>), Bytes(<<"\\">>), Bytes(<<"\n">>), Bytes(<<"a">>)}

BlockOpen == Bytes(<<"/", "*">>)

BlockClose == Bytes(<<"*", "/">>)

LineOpen == Bytes(<<"/", "/">>)

\* /* a /* a */ a */ a
ExampleNestedComment ==
    Bytes(<<"/", "*", "a", "/", "*", "a", "*", "/", "a", "*", "/", "a">>)

\* A comment over two lines and a name on the third: // a\ LF a LF a
ExampleContinuedComment ==
    Bytes(<<"/", "/", "a", "\\", "\n", "a", "\n", "a">>)

\* A comment that ends in two backslashes, and a name on the next line.
ExampleTwoBackslashes == Bytes(<<"/", "/", "\\", "\\", "\n", "a">>)

CommentInputs ==
    {open \o w : open \in {BlockOpen, LineOpen},
                 w \in Words(CommentAlphabet, MaxCommentLen)}
        \cup {ExampleNestedComment, ExampleContinuedComment, ExampleTwoBackslashes}

SpecComment == InitLexer(CommentInputs) /\ [][NextLex]_vars

\* The number of places in input[from..to] where the two bytes of pair are.
Occurrences(input, pair, from, to) ==
    Cardinality({i \in from..(to - 1) : <<input[i], input[i + 1]>> = pair})

\* The index of the byte that ends the block comment opened by input[1..2]:
\* the first at which the `*/` read are one more than the `/*` read after
\* the opener; 0 when the input ends first.
BlockEnd(input) ==
    LET ends == {m \in 3..Len(input) :
                    Occurrences(input, BlockClose, 3, m)
                        = 1 + Occurrences(input, BlockOpen, 3, m)}
    IN  IF ends = {} THEN 0 ELSE CHOOSE m \in ends : \A n \in ends : m <= n

\* The bytes of input after the index i.
After(input, i) == SubSeq(input, i + 1, Len(input))

\* What the lexer gives for the text alone.
TokensFor(text) == LexAll(Lexer_new(text), <<>>)

StillSkipping(l) ==
    {i \in 1..Len(l.errors) :
        l.errors[i].msg = "still skipping comments at end of file"}

\* C33, block comments: the tokens of a text that begins with a block
\* comment are those of the text after the comment; a comment that the
\* input ends in gives one diagnostic and the final Newline alone.
C33_BlockComment ==
    (ldone /\ SubSeq(lx.input, 1, 2) = BlockOpen) =>
        LET m == BlockEnd(lx.input)
        IN  IF m = 0
            THEN /\ TokensOf(toks) = <<TokPunct("Newline")>>
                 /\ Len(lx.errors) = 1
                 /\ Cardinality(StillSkipping(lx)) = 1
            ELSE /\ TokensOf(toks) = TokensFor(After(lx.input, m))
                 /\ \A k \in 1..Len(toks) : toks[k].start = 0 \/ toks[k].start > m

\* The tokens of a text that begins with a `//` comment which ends at the
\* line end input[e], or at the end of the input when e = 0: one Newline for
\* the comment, then those of the text after the line end.
LineCommentTo(e) ==
    /\ toks[1].token = TokPunct("Newline")
    /\ toks[1].start = 1
    /\ TokensOf(toks) =
           <<TokPunct("Newline")>>
               \o TokensFor(IF e = 0 THEN <<>> ELSE After(lx.input, e))

\* The first index of ends, 0 when there is none.
First(ends) == IF ends = {} THEN 0 ELSE CHOOSE m \in ends : \A n \in ends : m <= n

\* C33, line comments as stated: the comment ends at the first line end
\* that does not follow a backslash.
C33_LineComment ==
    (ldone /\ SubSeq(lx.input, 1, 2) = LineOpen) =>
        LineCommentTo(First({e \in 3..Len(lx.input) :
                                /\ lx.input[e] = B("\n")
                                /\ lx.input[e - 1] # B("\\")}))

\* What holds instead: the comment ends at the first line end that does not
\* follow an unconsumed backslash, a backslash consuming the byte after it.
C33_LineCommentEscapes ==
    (ldone /\ SubSeq(lx.input, 1, 2) = LineOpen) =>
        LineCommentTo(First({e \in 3..Len(lx.input) :
                                /\ lx.input[e] = B("\n")
                                /\ ~Escaped(lx.input, 3, e)}))

\* C33: a block comment produces no token: after the opening `/*` the lexer
\* skips bytes until the `*/` read are one more than the `/*` read inside
\* the comment, and if the input ends first exactly one diagnostic is
\* recorded and the final Newline follows.  A `//` comment is consumed
\* through the end of its physical line, continuing past a
\* backslash-newline, and gives exactly one Newline token.
C33_Comments == C33_BlockComment /\ C33_LineComment

\* `/* a /* a */ a */ a` has given the name after the comment and the final
\* Newline.
C33_Nested ==
    /\ ldone
    /\ lx.input = ExampleNestedComment
    /\ TokensOf(toks) = <<Id("a"), TokPunct("Newline")>>

\* The comment `// a\` went on over the second line: the name of the third
\* line is the only name.
C33_Continued ==
    /\ ldone
    /\ lx.input = ExampleContinuedComment
    /\ TokensOf(toks) = <<TokPunct("Newline"), Id("a"), TokPunct("Newline")>>

\* The comment that ends in two backslashes ended at its line end: the name
\* on the next line is a token.
C33_TwoBackslashes ==
    /\ ldone
    /\ lx.input = ExampleTwoBackslashes
    /\ TokensOf(toks) = <<TokPunct("Newline"), Id("a"), TokPunct("Newline")>>

(***************************************************************************)
(* SpecSeparated: separated(Comma, RParen, allow_empty, expression) over   *)
(* streams of names, commas and `)`.                                       *)
(***************************************************************************)
MaxListLen == 4

ListAlphabet == {Id("a"), Id("b"), TokPunct("Comma"), TokPunct("RParen")}

ListInputs == {Located(<<w>>, 1) : w \in Words({<<t>> : t \in ListAlphabet}, MaxListLen)}

\* Expression::from(Term::Null), the empty argument of arguments().
NullExpression == Base(<<>>, [t |-> "Null"], <<>>)

\* let r = parser.separated(Comma, RParen, allow_empty, Parser::expression);
Separated ==
    /\ ppc = "new"
    /\ \E allow_empty \in {<<>>, <<NullExpression>>} :
           \E r \in {Parser("separated", <<px, "Comma", "RParen", allow_empty,
                                           "expression">>)} :
               /\ px' = r.p
               /\ pres' = [st |-> r.st, v |-> r.v, allow_empty |-> allow_empty]
    /\ ppc' = "called"
    /\ UNCHANGED <<lx, toks, ldone>>

NextSeparated == Separated

SpecSeparated == InitParser(ListInputs, {FALSE}) /\ [][NextSeparated]_vars

\* The tokens of the input before its first `)`, and the index of that `)`,
\* 0 when there is none.
TerminatorAt(input) ==
    First({i \in 1..Len(input) : input[i].token = TokPunct("RParen")})

ListBody(input) ==
    [i \in 1..(TerminatorAt(input) - 1) |-> input[i].token]

IsSeparator(tok) == tok = TokPunct("Comma")

\* The separator w[i] stands where an element is expected: at the start or
\* right after another separator.
ElementExpected(w, i) == i = 1 \/ IsSeparator(w[i - 1])

\* The list w is one that separated() cannot parse: two elements with no
\* separator between them, or a separator where an element is expected when
\* no empty element is allowed.
ListError(w, allow_empty) ==
    \E i \in 1..Len(w) :
        \/ i > 1 /\ ~IsSeparator(w[i]) /\ ~IsSeparator(w[i - 1])
        \/ IsSeparator(w[i]) /\ ElementExpected(w, i) /\ allow_empty = <<>>

\* What the tokens w[i..] add to the list, in order: a name its expression,
\* a separator where an element is expected the empty element, a separator
\* after an element nothing.
RECURSIVE ListElements(_, _, _)
ListElements(w, i, allow_empty) ==
    IF i > Len(w) THEN <<>>
    ELSE (IF ~IsSeparator(w[i])
          THEN <<Base(<<>>, [t |-> "Ident", v |-> w[i].text], <<>>)>>
          ELSE IF ElementExpected(w, i) THEN allow_empty
          ELSE <<>>)
         \o ListElements(w, i + 1, allow_empty)

\* C34, the result: the call fails when the input has no terminator or the
\* list before it is in error, and otherwise returns the elements in input
\* order and leaves unread what follows the terminator.
C34_Elements ==
    ppc = "called" =>
        LET n == TerminatorAt(px.input)
            w == ListBody(px.input)
        IN  IF n = 0 \/ ListError(w, pres.allow_empty)
            THEN pres.st = "Err"
            ELSE /\ pres.st = "Some"
                 /\ pres.v = ListElements(w, 1, pres.allow_empty)
                 /\ px.ipos = n
                 /\ px.next = <<>>

\* C34, the last separator as stated: a separator immediately before the
\* terminator adds no element, so that the list is that of the tokens before
\* the separator.
C34_LastSeparator ==
    (ppc = "called" /\ pres.st = "Some") =>
        LET w == ListBody(px.input)
        IN  (w # <<>> /\ IsSeparator(w[Len(w)])) =>
                pres.v = ListElements(SubSeq(w, 1, Len(w) - 1), 1, pres.allow_empty)

\* C34, the last separator after an element: it adds no element.
C34_TrailingSeparator ==
    (ppc = "called" /\ pres.st = "Some") =>
        LET w == ListBody(px.input)
        IN  (Len(w) >= 2 /\ IsSeparator(w[Len(w)]) /\ ~IsSeparator(w[Len(w) - 1])) =>
                pres.v = ListElements(SubSeq(w, 1, Len(w) - 1), 1, pres.allow_empty)

\* C34 as stated: separated() returns the parsed elements in input order
\* when the terminator is reached; a separator where an element is expected
\* appends allow_empty's value when one is given and is a parse error when
\* it is None; a separator immediately before the terminator adds no
\* element; two elements with no separator between them are a parse error.
C34_Separated == C34_Elements /\ C34_LastSeparator

\* C34 amended: the same, the separator that adds no element being one that
\* follows an element: immediately before the terminator or before another
\* element.
C34_SeparatedAfterElement == C34_Elements /\ C34_TrailingSeparator

\* C34 happens: `a , , b )` with an empty element allowed has given a, the
\* empty element and b.
C34_Witness ==
    /\ ppc = "called"
    /\ pres.st = "Some"
    /\ pres.allow_empty # <<>>
    /\ Len(pres.v) = 3
    /\ pres.v[2] = NullExpression
    /\ pres.v[1] # pres.v[3]

\* C34 happens: `a , )` has given a alone, the separator nothing.
C34_Trailing ==
    /\ ppc = "called"
    /\ pres.st = "Some"
    /\ TerminatorAt(px.input) = 3
    /\ IsSeparator(px.input[2].token)
    /\ Len(pres.v) = 1

\* `, )` with an empty element allowed has given the empty element: the
\* separator before the terminator added one.
C34_OnlySeparator ==
    /\ ppc = "called"
    /\ pres.st = "Some"
    /\ TerminatorAt(px.input) = 2
    /\ pres.v = <<NullExpression>>

(***************************************************************************)
(* SpecStack: run() over object-tree text made of paths, blocks, variables *)
(* and procedures, well formed or not.                                     *)
(***************************************************************************)
MaxStackLen == 4

\* The pieces: `a`, `/b`, `{`, `}`, `;`, `= a ;` and `( ) ;`.
StackAlphabet ==
    {<<Id("a")>>, <<TokPunct("Slash"), Id("b")>>, <<TokPunct("LBrace")>>,
     <<TokPunct("RBrace")>>, <<TokPunct("Semicolon")>>,
     <<TokPunct("Assign"), Id("a"), TokPunct("Semicolon")>>,
     <<TokPunct("LParen"), TokPunct("RParen"), TokPunct("Semicolon")>>}

\* a { a/b { a ; } a ; } a ;
ExampleSiblings ==
    <<Id("a"), TokPunct("LBrace"), Id("a"), TokPunct("Slash"), Id("b"),
      TokPunct("LBrace"), Id("a"), TokPunct("Semicolon"), TokPunct("RBrace"),
      Id("a"), TokPunct("Semicolon"), TokPunct("RBrace"), Id("a"),
      TokPunct("Semicolon")>>

\* a { /b { a { a = a ; } a ( ) ; } a ; }
ExampleAbsoluteInside ==
    <<Id("a"), TokPunct("LBrace"), TokPunct("Slash"), Id("b"), TokPunct("LBrace"),
      Id("a"), TokPunct("LBrace"), Id("a"), TokPunct("Assign"), Id("a"),
      TokPunct("Semicolon"), TokPunct("RBrace"), Id("a"), TokPunct("LParen"),
      TokPunct("RParen"), TokPunct("Semicolon"), TokPunct("RBrace"), Id("a"),
      TokPunct("Semicolon"), TokPunct("RBrace")>>

StackInputs ==
    {Located(<<w>>, 1) : w \in Words(StackAlphabet, MaxStackLen)}
        \cup {Located(<<ExampleSiblings>>, 1), Located(<<ExampleAbsoluteInside>>, 1)}

SpecStack == InitParser(StackInputs, {FALSE}) /\ [][NextTree]_vars

\* An explicit stack: the entries whose blocks are open, outermost first,
\* each [absolute, parts].  The path under it is made of the segments of the
\* entries since the most recent absolute one.
NoEntry == [absolute |-> FALSE, parts |-> <<>>]

RECURSIVE PathUnder(_)
PathUnder(frames) ==
    IF frames = <<>> THEN <<>>
    ELSE LET last == frames[Len(frames)]
         IN  IF last.absolute THEN last.parts
             ELSE PathUnder(SubSeq(frames, 1, Len(frames) - 1)) \o last.parts

Pop(frames) == IF frames = <<>> THEN <<>> ELSE SubSeq(frames, 1, Len(frames) - 1)

\* The paths of the entries of the token sequence ts from ts[i] on, in
\* order, read with the explicit stack: frames is pushed at `{` and popped
\* at `}`, cur is the entry whose path is being read, skip says that the
\* tokens up to the next `;` are a value or a procedure.
RECURSIVE StackPaths(_, _, _, _, _)
StackPaths(ts, i, frames, cur, skip) ==
    LET done == IF cur.parts = <<>> THEN <<>> ELSE <<PathUnder(Append(frames, cur))>>
    IN  IF i > Len(ts) THEN done
        ELSE IF skip
        THEN StackPaths(ts, i + 1, frames, NoEntry, ts[i] # TokPunct("Semicolon"))
        ELSE IF ts[i] = TokPunct("Slash")
        THEN StackPaths(ts, i + 1, frames,
                        IF cur.parts = <<>> THEN [cur EXCEPT !.absolute = TRUE] ELSE cur,
                        FALSE)
        ELSE IF ts[i].kind = "Ident"
        THEN IF cur.parts # <<>> /\ ts[i - 1].kind = "Ident"
             THEN done \o StackPaths(ts, i + 1, frames,
                                     [absolute |-> FALSE, parts |-> <<ts[i].text>>], FALSE)
             ELSE StackPaths(ts, i + 1, frames,
                             [cur EXCEPT !.parts = Append(@, ts[i].text)], FALSE)
        ELSE IF ts[i] = TokPunct("LBrace")
        THEN done \o StackPaths(ts, i + 1, Append(frames, cur), NoEntry, FALSE)
        ELSE IF ts[i] = TokPunct("RBrace")
        THEN done \o StackPaths(ts, i + 1, Pop(frames), NoEntry, FALSE)
        ELSE IF ts[i] = TokPunct("Semicolon")
        THEN done \o StackPaths(ts, i + 1, frames, NoEntry, FALSE)
        ELSE done \o StackPaths(ts, i + 1, frames, NoEntry, TRUE)

ExplicitPaths(input) ==
    StackPaths([i \in 1..Len(input) |-> input[i].token], 1, <<>>, NoEntry, FALSE)

ErrorsOf(p) == {i \in 1..Len(p.errors) : p.errors[i].severity = "Error"}

\* C35: the path tree_entry passes to add_entry, add_var and add_proc is the
\* one an explicit push/pop stack gives: the segments of the enclosing
\* blocks since the most recent absolute entry, outermost first, then the
\* entry's own; the depth argument is the number of those segments; and
\* after a block is left the entries beside it see the enclosing path
\* unchanged.  When run() has stopped at an error, the entries added before
\* it are the first of those of the text.
C35_ExplicitStack ==
    ppc \in {"ran", "done"} =>
        LET paths == ExplicitPaths(px.input)
        IN  /\ Len(px.tree) <= Len(paths)
            /\ \A k \in 1..Len(px.tree) :
                   /\ px.tree[k].path = paths[k]
                   /\ px.tree[k].len = Len(paths[k])
            /\ ErrorsOf(px) = {} => Len(px.tree) = Len(paths)

\* The path whose segments are the one-letter names of s.
Segments(s) == [i \in 1..Len(s) |-> Bytes(<<s[i]>>)]

\* C35 happens: `a { a/b { a ; } a ; } a ;` has been read without an error:
\* the entry after the inner block is a/a and the one after the outer block
\* is a.
C35_Witness ==
    /\ ppc = "ran"
    /\ [i \in 1..Len(px.input) |-> px.input[i].token] = ExampleSiblings
    /\ px.errors = <<>>
    /\ [k \in 1..Len(px.tree) |-> px.tree[k].path]
           = <<Segments(<<"a">>), Segments(<<"a", "a", "b">>),
               Segments(<<"a", "a", "b", "a">>), Segments(<<"a", "a">>),
               Segments(<<"a">>)>>

\* C35 happens: in `a { /b { a { a = a ; } a ( ) ; } a ; }` the variable is
\* added as b/a/a and the procedure as b/a, both without the outer a.
C35_Absolute ==
    /\ ppc = "ran"
    /\ [i \in 1..Len(px.input) |-> px.input[i].token] = ExampleAbsoluteInside
    /\ ErrorsOf(px) = {}
    /\ \E k \in 1..Len(px.tree) :
           px.tree[k].call = "add_var" /\ px.tree[k].path = Segments(<<"b", "a", "a">>)
    /\ \E k \in 1..Len(px.tree) :
           px.tree[k].call = "add_proc" /\ px.tree[k].path = Segments(<<"b", "a">>)

(***************************************************************************)
(* SpecParameter: run() over a procedure header `a (` followed by path     *)
(* separators, names, commas, `)` and `;`.                                 *)
(***************************************************************************)
MaxParamLen == 3

ParamAlphabet ==
    {TokPunct("Slash"), TokPunct("Dot"), TokPunct("Colon"), Id("a"), TokPunct("Comma"),
     TokPunct("RParen"), TokPunct("Semicolon")}

\* a ( / ) ;
ExampleBareSeparator ==
    <<Id("a"), TokPunct("LParen"), TokPunct("Slash"), TokPunct("RParen"),
      TokPunct("Semicolon")>>

\* a ( a / a , a ) ;
ExampleParameters ==
    <<Id("a"), TokPunct("LParen"), Id("a"), TokPunct("Slash"), Id("a"),
      TokPunct("Comma"), Id("a"), TokPunct("RParen"), TokPunct("Semicolon")>>

ParamInputs ==
    {Located(<<<<Id("a"), TokPunct("LParen")>> \o w>>, 1) :
        w \in Words({<<t>> : t \in ParamAlphabet}, MaxParamLen)}
    \cup {Located(<<ExampleBareSeparator>>, 1), Located(<<ExampleParameters>>, 1)}

SpecParameter == InitParser(ParamInputs, {FALSE}) /\ [][NextTree]_vars

IsPathSeparator(tok) ==
    tok \in {TokPunct("Slash"), TokPunct("Dot"), TokPunct("Colon")}

\* C36: Parser::run never panics on any token stream: proc_parameter never
\* takes the last segment of an empty path, so a parameter that is only a
\* path separator ends in a diagnostic or a parse error, not in a crash.
C36_NeverPanics == ~px.panicked

\* What holds: run() panics only where a parameter begins with a path
\* separator that no name follows, and then `path has no effect` has been
\* registered before the panic.
C36_PanicsOnBareSeparator ==
    px.panicked =>
        /\ \E i \in 3..Len(px.input) :
               /\ IsPathSeparator(px.input[i].token)
               /\ px.input[i - 1].token \in {TokPunct("LParen"), TokPunct("Comma")}
               /\ (i = Len(px.input) \/ px.input[i + 1].token.kind # "Ident")
        /\ \E k \in 1..Len(px.errors) : px.errors[k].msg = "path has no effect"

\* `a ( / ) ;` has been run and the parser has panicked.
C36_BareSeparator ==
    /\ ppc = "ran"
    /\ [i \in 1..Len(px.input) |-> px.input[i].token] = ExampleBareSeparator
    /\ px.panicked

\* `a ( a / a , a ) ;` has been run without a panic or an error and the
\* procedure was added with two parameters.
C36_Parameters ==
    /\ ppc = "ran"
    /\ [i \in 1..Len(px.input) |-> px.input[i].token] = ExampleParameters
    /\ ~px.panicked
    /\ px.errors = <<>>
    /\ Len(px.tree) = 1
    /\ Len(px.tree[1].extra) = 2


\* ---------------------------------------------------------------------------
\* The interpolation stack against the string tokens emitted (SpecInterp).

\* The number of tokens of one kind among ts.
KindCount(ts, kind) == Cardinality({i \in 1..Len(ts) : ts[i].token.kind = kind})

\* The frames that the tokens emitted so far leave open.
FramesOpen(ts) == KindCount(ts, "InterpStringBegin") - KindCount(ts, "InterpStringEnd")

\* The stack holds one frame for each interpolated string begun and not
\* ended, and every frame is at depth 1 or more.
C37_Frames ==
    /\ Len(lx.interp_stack) = FramesOpen(toks)
    /\ \A i \in 1..Len(lx.interp_stack) : lx.interp_stack[i].bracket_depth >= 1

\* One token is emitted: the stack agrees with the tokens afterwards, a
\* string continuation needs an open frame, and with no frame open a `[`
\* or `]` that starts a token is punctuation and opens no frame (the text
\* of a #warn or #error directive is a string, not punctuation).
C37_Step ==
    Emitted =>
        LET t == Last
        IN  /\ C37_Frames'
            /\ t.token.kind \in {"InterpStringPart", "InterpStringEnd"} =>
                   lx.interp_stack # <<>>
            /\ (lx.interp_stack = <<>> /\ lx.directive # "Stringy" /\ t.start >= 1
                    /\ lx.input[t.start] \in {91, 93}) =>
                   /\ t.token = TokPunct(IF lx.input[t.start] = 91
                                         THEN "LBracket" ELSE "RBracket")
                   /\ lx'.interp_stack = <<>>

\* C37: after every token the interpolation stack has as many frames as
\* InterpStringBegin tokens minus InterpStringEnd tokens were emitted, every
\* frame has bracket_depth >= 1, InterpStringPart and InterpStringEnd are
\* emitted only with a frame open, and with an empty stack `[` and `]` are
\* plain punctuation that leaves the stack empty.
C37_InterpStack == [][C37_Step]_vars

\* C37 happens: "a[ "b[ x ]c" ]d" has been lexed to its end, two frames were
\* open at once, both were closed, and a `]` was read with no frame open in
\* some other input.
C37_Witness ==
    /\ ldone
    /\ lx.input = ExampleNested
    /\ KindCount(toks, "InterpStringBegin") = 2
    /\ KindCount(toks, "InterpStringEnd") = 2
    /\ lx.interp_stack = <<>>

\* C37 happens: a `]` and a `[` read with no frame open.
C37_Plain ==
    /\ ldone
    /\ lx.input = Bytes(<<"]", "[", "\"", "a", "[">>)
    /\ toks[1].token = TokPunct("RBracket")
    /\ toks[2].token = TokPunct("LBracket")
    /\ toks[3].token.kind = "InterpStringBegin"
    /\ Len(lx.interp_stack) = 1


\* ---------------------------------------------------------------------------
\* The lexer's one-byte slot (SpecSlot).

MaxSlotLen == 4

\* a, 0, `<`, `=`, `"`, backslash, line feed and space.
SlotAlphabet ==
    {Bytes(<<"a">>), Bytes(<<"0">>), Bytes(<<"<">>), Bytes(<<"=">>),
     Bytes(<<"\"">>), <<92>>, <<10>>, Bytes(<<" ">>)}

\* "a\<LF> b"<LF>a
ExampleContinuedString ==
    Bytes(<<"\"", "a">>) \o <<92, 10>> \o Bytes(<<" ", "b", "\"">>) \o <<10>>
        \o Bytes(<<"a">>)

\* a<<=0<LF><=a
ExampleLookahead ==
    Bytes(<<"a", "<", "<", "=", "0">>) \o <<10>> \o Bytes(<<"<", "=", "a">>)

\* #warn a<LF>a
ExampleStringy ==
    Bytes(<<"#", "w", "a", "r", "n", " ", "a">>) \o <<10>> \o Bytes(<<"a">>)

SlotInputs ==
    Words(SlotAlphabet, MaxSlotLen)
        \cup {ExampleContinuedString, ExampleLookahead, ExampleStringy}

SpecSlot == InitLexer(SlotInputs) /\ [][NextLex]_vars

\* put_back was never called with the slot full.
C38_SlotEmpty == ~lx.panicked

\* Every byte given to put_back was the byte last taken from the input, and
\* a byte in the slot between two tokens is the last byte taken.
C38_LastRead ==
    /\ ~lx.put_back_stale
    /\ lx.next # <<>> =>
           /\ lx.nextIdx = lx.pos
           /\ lx.next = <<lx.input[lx.pos]>>

\* No byte given to put_back was read across a line feed.
C38_NeverCrosses == ~lx.put_back_after_newline

\* C38 as stated: put_back finds the slot empty, the byte put back is the
\* byte most recently read, and the lookahead never crosses a newline.
C38_PutBack == C38_SlotEmpty /\ C38_LastRead /\ C38_NeverCrosses

\* A backslash directly before a line feed at i.
ContinuationAt(input, i) ==
    i >= 1 /\ i < Len(input) /\ input[i] = 92 /\ input[i + 1] = 10

\* A string was emitted that starts at byte i (the text of a #warn or #error
\* directive) or before it.
StringBefore(i) ==
    \E k \in 1..Len(toks) :
        /\ toks[k].token.kind \in {"String", "InterpStringBegin", "InterpStringPart",
                                   "InterpStringEnd"}
        /\ toks[k].start <= i

\* C38, amended: put_back finds the slot empty and the byte put back is the
\* byte most recently read; between two tokens the slot never holds a byte
\* read across a line feed, and such a byte is put back only while a string
\* with a backslash before a line feed is read.
C38_PutBackString ==
    /\ C38_SlotEmpty
    /\ C38_LastRead
    /\ lx.next # <<>> => ~LineFeedBefore(lx.input, lx.nextIdx)
    /\ lx.put_back_after_newline =>
           \E i \in 1..Len(lx.input) :
               ContinuationAt(lx.input, i) /\ StringBefore(i)

\* C38 happens: a<<=0<LF><=a has been lexed; the identifier, the operators
\* and the number each read one byte ahead and put it back.
C38_Witness ==
    /\ ldone
    /\ lx.input = ExampleLookahead
    /\ Len(toks) = 7
    /\ ~lx.panicked
    /\ ~lx.put_back_after_newline

\* C38 does not hold: in "a\<LF> b" the byte `b` of the second line was put
\* back.
C38_Crossed ==
    /\ ldone
    /\ lx.input = ExampleContinuedString
    /\ lx.put_back_after_newline
    /\ ~lx.panicked

====
